---- MODULE Spec2Model ----
(***************************************************************************)
(* CSV Transformer (jferard/CSVTransformer).                               *)
(*                                                                         *)
(* Two state machines share this module:                                   *)
(*   SpecExpr  the expression engine of csv_transformer/simple_eval.py:    *)
(*             ShuntingYard.process, one action per branch of its token    *)
(*             loop, then evaluate on the instruction sequence;            *)
(*   Spec      the pipeline of csv_transformer/__init__.py and             *)
(*             csv_transformer/transformation.py: Executor.execute_rw      *)
(*             driving Transformation.transform / take_or_ignore /         *)
(*             agg_rows over the rows of a reader.                         *)
(*                                                                         *)
(* Values.  A Python value is represented by the text of its repr: the     *)
(* int 1 is "1", the str 1 is "'1'", the bool True is "True".  The         *)
(* functions of the injectable operator tables are free constructors: the  *)
(* sum of x and y is the text "(x+y)", the call of min on x and y is       *)
(* "min(x,y)"; only == is interpreted, because the pipeline needs the      *)
(* truth value of its filters, and the aggregate count, which is the       *)
(* length of its list.                                                     *)
(***************************************************************************)
EXTENDS Integers, Sequences, FiniteSets, TLC

VARIABLES
    \* ---- expression engine (SpecExpr)
    tokens,     \* the TokenInfo sequence handed to ShuntingYard.process
    value_by_name, \* the binding environment handed to evaluate
    pos,        \* index of the next token of the for loop of process
    sy,         \* the ShuntingYard object: _operand_stack, _operator_stack, _expect_binop
    epc,        \* "begin" | "process" | "evaluate" | "done" | "raised"
    result,     \* what evaluate returned or raised: [err, stack]
    \* ---- pipeline (Spec)
    cfg,        \* the transformation_dict
    tr,         \* the Transformation built from it by TransformationJsonParser.parse
    reader,     \* the data rows read so far (after the header), in input order
    d,          \* Transformation._d, the group accumulator
    pending,    \* the items of _d that agg_rows has not yet yielded
    written_header, \* the header row written to the writer
    sink,       \* the data rows written to the writer
    ppc,        \* "start" | "transform" | "take" | "agg" | "done" | "raised"
    trace,      \* per input row, what the pipeline did with it
    runs,       \* the earlier calls of Executor.execute: [input, header, rows]
    csv_in,     \* the data rows of the file when they are known before the run: [known, rows]
    limit,      \* Executor._limit
    produced,   \* the rows the generator has yielded to sorted(), in the order yielded
    \* ---- header cleaning (SpecHeader)
    header_row, \* the header next(reader) gave, each name a sequence of characters
    extra,      \* Transformation._extra_prefix and _extra_count: [prefix, count]
    clean_header, \* the local clean_header of execute_rw
    hpc         \* "read" | "padded" | "improved"

exprVars == <<tokens, value_by_name, pos, sy, epc, result>>
pipeVars == <<cfg, tr, reader, d, pending, written_header, sink, ppc, trace, runs,
              csv_in, limit, produced>>
headVars == <<header_row, extra, clean_header, hpc>>
vars == <<tokens, value_by_name, pos, sy, epc, result,
          cfg, tr, reader, d, pending, written_header, sink, ppc, trace, runs,
          csv_in, limit, produced,
          header_row, extra, clean_header, hpc>>

-----------------------------------------------------------------------------
(* Sequence helpers *)

Last(s) == s[Len(s)]
Front(s) == SubSeq(s, 1, Len(s) - 1)

RECURSIVE Reverse(_)
Reverse(s) == IF s = <<>> THEN <<>> ELSE Append(Reverse(Tail(s)), Head(s))

RECURSIVE JoinComma(_)
JoinComma(s) ==
    IF s = <<>> THEN ""
    ELSE IF Len(s) = 1 THEN s[1]
    ELSE s[1] \o "," \o JoinComma(Tail(s))

\* F of a value computed once
Bind(v, F(_)) == F(v)

-----------------------------------------------------------------------------
(* simple_eval.py: tokens, instructions and the operator tables *)

Tok(type, string) == [type |-> type, string |-> string]

Literal(value) == [kind |-> "Literal", name |-> value]
Identifier(name) == [kind |-> "Identifier", name |-> name]
Function(name) == [kind |-> "Function", name |-> name]
BinOp(name) == [kind |-> "BinOp", name |-> name]
PrefixUnOp(name) == [kind |-> "PrefixUnOp", name |-> name]
\* the module-level str constants
OPEN_PAREN == [kind |-> "str", name |-> "("]
COMMA == [kind |-> "str", name |-> ","]
STOP == [kind |-> "str", name |-> "STOP"]
\* the value of STOP on the run stack of evaluate: the str 'STOP'
StopValue == "'STOP'"

binop_by_name ==
    [n \in {".", "^", "*", "/", "%", "+", "-", "<", "<=", "==", ">=", ">",
            "and", "or", "(", ",", ")"} |->
        CASE n = "." -> [precedence |-> 1, left_associative |-> FALSE]
          [] n = "^" -> [precedence |-> 2, left_associative |-> FALSE]
          [] n \in {"*", "/", "%"} -> [precedence |-> 3, left_associative |-> TRUE]
          [] n \in {"+", "-"} -> [precedence |-> 4, left_associative |-> TRUE]
          [] n \in {"<", "<=", "==", ">=", ">"} -> [precedence |-> 6, left_associative |-> TRUE]
          [] n = "and" -> [precedence |-> 11, left_associative |-> TRUE]
          [] n = "or" -> [precedence |-> 12, left_associative |-> TRUE]
          [] OTHER -> [precedence |-> 15, left_associative |-> FALSE]]

infix_unop_by_name == [n \in {} |-> BinOp(n)]

\* the Function entries of prefix_unop_by_name that the model's expressions call
FunctionNames == {"min", "max", "pi", "int"}
\* the PrefixUnOp entries of prefix_unop_by_name
PrefixOpNames == {"-", "!"}

prefix_unop_by_name ==
    [n \in FunctionNames \cup PrefixOpNames |->
        IF n \in FunctionNames THEN Function(n) ELSE PrefixUnOp(n)]

IsOp(x) == x.kind \in {"Function", "BinOp", "PrefixUnOp"}

\* a table in which every binary operator has the precedence of "*"
precedence_flat(op) ==
    CASE op.kind = "Function" -> 1
      [] op.kind = "PrefixUnOp" -> 2
      [] OTHER -> 3

\* Op.precedence and Op.left_associative, as set by the constructors
precedence(op) ==
    CASE op.kind = "Function" -> 1
      [] op.kind = "PrefixUnOp" -> 2
      [] OTHER -> binop_by_name[op.name].precedence

\* a table in which no operator is left associative
left_associative_never(op) == FALSE

\* a table in which every binary operator, the power included, is left
\* associative
left_associative_power_too(op) == op.kind = "BinOp"

left_associative(op) ==
    CASE op.kind = "Function" -> FALSE
      [] op.kind = "PrefixUnOp" -> FALSE
      [] OTHER -> binop_by_name[op.name].left_associative

-----------------------------------------------------------------------------
(* ShuntingYard *)

NewShuntingYard ==
    [operand_stack |-> <<>>, operator_stack |-> <<>>, expect_binop |-> FALSE,
     error |-> ""]

Raise(st, e) == [st EXCEPT !.error = e]

_is_close_parenthese(t) == t.type = "OP" /\ t.string = ")"
_is_comma(t) == t.type = "OP" /\ t.string = ","
_is_op(t) == t.type = "OP" /\ t.string \notin {"(", ")", ","}
_is_identifier(t) == t.type = "NAME" /\ t.string \notin DOMAIN prefix_unop_by_name
_is_function(t) == t.type = "NAME" /\ t.string \in DOMAIN prefix_unop_by_name
_is_open_parenthese(t) == t.type = "OP" /\ t.string = "("

_has_higher_precedence(cur_binop, prev_binop) ==
    \/ precedence(cur_binop) < precedence(prev_binop)
    \/ /\ precedence(cur_binop) = precedence(prev_binop)
       /\ ~left_associative(cur_binop)

\* the while loop of _handle_close_parenthese
RECURSIVE _handle_close_parenthese(_)
_handle_close_parenthese(st) ==
    IF st.operand_stack = <<>> THEN st
    ELSE IF st.operator_stack = <<>> THEN Raise(st, "IndexError")
    ELSE LET prev_op == Last(st.operator_stack)
             popped == [st EXCEPT !.operator_stack = Front(@)]
         IN  IF prev_op = OPEN_PAREN THEN popped
             ELSE _handle_close_parenthese(
                      IF prev_op = COMMA THEN popped
                      ELSE [popped EXCEPT !.operand_stack = Append(@, prev_op)])

\* the while loop of _handle_comma
RECURSIVE UnstackToComma(_)
UnstackToComma(st) ==
    IF st.operator_stack = <<>> THEN st
    ELSE LET prev_op == Last(st.operator_stack)
         IN  IF prev_op = OPEN_PAREN \/ prev_op = COMMA THEN st
             ELSE UnstackToComma(
                      [st EXCEPT !.operand_stack = Append(@, prev_op),
                                 !.operator_stack = Front(@)])

_handle_comma(st) ==
    LET u == UnstackToComma(st)
    IN  [u EXCEPT !.operator_stack = Append(@, COMMA)]

\* the while loop of _handle_op
RECURSIVE UnstackForOp(_, _)
UnstackForOp(st, cur_op) ==
    IF st.operator_stack = <<>> THEN st
    ELSE LET prev_op == Last(st.operator_stack)
         IN  IF prev_op = OPEN_PAREN THEN st
             ELSE IF IsOp(prev_op) /\ _has_higher_precedence(cur_op, prev_op) THEN st
             ELSE UnstackForOp(
                      [st EXCEPT
                          !.operand_stack = IF prev_op # COMMA THEN Append(@, prev_op) ELSE @,
                          !.operator_stack = Front(@)],
                      cur_op)

_handle_op(st, cur_op) ==
    LET u == UnstackForOp(st, cur_op)
    IN  [u EXCEPT !.operator_stack = Append(@, cur_op)]

\* _get_op: the operator, or the KeyError of the table lookup
GetOpFails(st, t) ==
    IF st.expect_binop
    THEN t.string \notin DOMAIN infix_unop_by_name /\ t.string \notin DOMAIN binop_by_name
    ELSE t.string \notin DOMAIN prefix_unop_by_name

_get_op(st, t) ==
    IF st.expect_binop
    THEN IF t.string \in DOMAIN infix_unop_by_name
         THEN infix_unop_by_name[t.string]
         ELSE BinOp(t.string)
    ELSE prefix_unop_by_name[t.string]

\* a Literal branch that forgets to expect a binary operator next
OnLiteral_keep_expect(st, t) ==
    [st EXCEPT !.operand_stack = Append(@, Literal(t.string))]

\* the branches of the token loop of process
OnLiteral(st, t) ==
    [st EXCEPT !.operand_stack = Append(@, Literal(t.string)), !.expect_binop = TRUE]

OnIdentifier(st, t) ==
    [st EXCEPT !.operand_stack = Append(@, Identifier(t.string)), !.expect_binop = TRUE]

OnCloseParenthese(st) ==
    Bind(_handle_close_parenthese(st),
         LAMBDA h : IF h.error # "" THEN h ELSE [h EXCEPT !.expect_binop = TRUE])

OnFunction(st, t) ==
    [st EXCEPT !.operator_stack = Append(@, prefix_unop_by_name[t.string]),
               !.operand_stack = Append(@, STOP),
               !.expect_binop = FALSE]

OnOpenParenthese(st) ==
    [st EXCEPT !.operator_stack = Append(@, OPEN_PAREN), !.expect_binop = FALSE]

OnComma(st) == [_handle_comma(st) EXCEPT !.expect_binop = FALSE]

OnOp(st, t) ==
    IF GetOpFails(st, t) THEN Raise(st, "KeyError")
    ELSE [_handle_op(st, _get_op(st, t)) EXCEPT !.expect_binop = FALSE]

\* one iteration of the for loop of process
ProcessToken(st, t) ==
    CASE t.type \in {"NUMBER", "STRING"} -> OnLiteral(st, t)
      [] _is_identifier(t) -> OnIdentifier(st, t)
      [] _is_close_parenthese(t) -> OnCloseParenthese(st)
      [] _is_function(t) -> OnFunction(st, t)
      [] _is_open_parenthese(t) -> OnOpenParenthese(st)
      [] _is_comma(t) -> OnComma(st)
      [] _is_op(t) -> OnOp(st, t)
      [] t.type \in {"NEWLINE", "ENDMARKER"} -> st
      [] OTHER -> Raise(st, "ValueError")

\* the end of process: self._operand_stack.extend(self._operator_stack[::-1])
Drained(st) ==
    [st EXCEPT !.operand_stack = @ \o Reverse(st.operator_stack)]

RECURSIVE ProcessFrom(_, _, _)
ProcessFrom(st, toks, i) ==
    IF st.error # "" THEN st
    ELSE IF i > Len(toks) THEN Drained(st)
    ELSE ProcessFrom(ProcessToken(st, toks[i]), toks, i + 1)

\* ShuntingYard(debug).process(tokens), after the ENCODING token
process(toks) ==
    IF toks = <<>> \/ toks[1].type # "ENCODING"
    THEN Raise(NewShuntingYard, "AssertionError")
    ELSE ProcessFrom(NewShuntingYard, toks, 2)

-----------------------------------------------------------------------------
(* evaluate *)

\* the functions of the operator tables
BinFunc(name, first, second) ==
    IF name = "==" THEN (IF first = second THEN "True" ELSE "False")
    ELSE "(" \o first \o name \o second \o ")"

UnFunc(name, arg) == "(" \o name \o arg \o ")"

CallFunc(name, args) == name \o "(" \o JoinComma(args) \o ")"

\* binop_by_name entries whose func is None
NoFunc == {".", "(", ",", ")"}

\* the while loop of the Function branch: [err, stack, args]
RECURSIVE CollectArgs(_, _)
CollectArgs(stack, args) ==
    IF stack = <<>> THEN [err |-> "IndexError", stack |-> stack, args |-> args]
    ELSE LET y == Last(stack)
         IN  IF y = StopValue
             THEN [err |-> "", stack |-> Front(stack), args |-> args]
             ELSE CollectArgs(Front(stack), <<y>> \o args)

\* one iteration of the for loop of evaluate: [err, stack]
EvalToken(token, stack, env) ==
    CASE token.kind = "Literal" -> [err |-> "", stack |-> Append(stack, token.name)]
      [] token.kind = "Identifier" ->
            IF token.name \in DOMAIN env
            THEN [err |-> "", stack |-> Append(stack, env[token.name])]
            ELSE [err |-> "KeyError", stack |-> stack]
      [] token.kind = "BinOp" ->
            IF Len(stack) < 2 THEN [err |-> "IndexError", stack |-> stack]
            ELSE IF token.name \in NoFunc THEN [err |-> "TypeError", stack |-> stack]
            ELSE LET second == stack[Len(stack)]
                     first == stack[Len(stack) - 1]
                 IN  [err |-> "",
                      stack |-> Append(SubSeq(stack, 1, Len(stack) - 2),
                                       BinFunc(token.name, first, second))]
      [] token.kind = "PrefixUnOp" ->
            IF stack = <<>> THEN [err |-> "IndexError", stack |-> stack]
            ELSE [err |-> "",
                  stack |-> Append(Front(stack), UnFunc(token.name, Last(stack)))]
      [] token.kind = "Function" ->
            Bind(CollectArgs(stack, <<>>),
                 LAMBDA c : IF c.err # "" THEN [err |-> c.err, stack |-> c.stack]
                            ELSE [err |-> "",
                                  stack |-> Append(c.stack, CallFunc(token.name, c.args))])
      [] token = STOP -> [err |-> "", stack |-> Append(stack, StopValue)]
      [] OTHER -> [err |-> "ValueError", stack |-> stack]

\* the for loop of evaluate and its return stack[0]
RECURSIVE EvaluateFrom(_, _, _, _)
EvaluateFrom(instr, i, stack, env) ==
    IF i > Len(instr)
    THEN IF stack = <<>> THEN [err |-> "IndexError", stack |-> stack]
         ELSE [err |-> "", stack |-> stack]
    ELSE Bind(EvalToken(instr[i], stack, env),
              LAMBDA r : IF r.err # "" THEN r ELSE EvaluateFrom(instr, i + 1, r.stack, env))

\* evaluate(tokens, value_by_name): [err, stack]; the value returned is stack[1]
evaluate(instr, env) == EvaluateFrom(instr, 1, <<>>, env)

-----------------------------------------------------------------------------
(* The expressions given to the engine: token sequences as tokenize_expr   *)
(* yields them (ENCODING first, NEWLINE and ENDMARKER last).               *)

NUM(s) == Tok("NUMBER", s)
STR(s) == Tok("STRING", s)
NAME(s) == Tok("NAME", s)
OP(s) == Tok("OP", s)

Tokenized(body) ==
    <<Tok("ENCODING", "utf-8")>> \o body \o <<Tok("NEWLINE", ""), Tok("ENDMARKER", "")>>

\* largest number of arguments of the generated calls
MaxArgs == 2

\* the binary operators of binop_by_name that have a function and an OP token
ArithOps == {"^", "*", "/", "%", "+", "-", "<", "<=", "==", ">=", ">"}

IdentNames == {"a", "b", "c", "d"}
CellValues == {"1", "'STOP'"}
Envs == [IdentNames -> CellValues]

\* x op1 y op2 z
ChainExprs ==
    {<<NAME("a"), OP(o1), NAME("b"), OP(o2), NAME("c")>> : o1 \in ArithOps, o2 \in ArithOps}

\* (x op1 y) op2 z and x op1 (y op2 z)
ParenExprs ==
    {<<OP("("), NAME("a"), OP(o1), NAME("b"), OP(")"), OP(o2), NAME("c")>> :
        o1 \in ArithOps, o2 \in ArithOps}
    \cup
    {<<NAME("a"), OP(o1), OP("("), NAME("b"), OP(o2), NAME("c"), OP(")")>> :
        o1 \in ArithOps, o2 \in ArithOps}

\* expressions with prefix operators
UnaryExprs ==
    {<<OP(u), NAME("a"), OP(o), NAME("b")>> : u \in PrefixOpNames, o \in ArithOps}
    \cup {<<NAME("a"), OP(o), OP(u), NAME("b")>> : u \in PrefixOpNames, o \in ArithOps}
    \cup {<<OP(u), OP(v), NAME("a")>> : u \in PrefixOpNames, v \in PrefixOpNames}
    \cup {<<NAME("a"), OP(o1), OP("-"), NAME("b"), OP(o2), NAME("c")>> :
            o1 \in {"-", "+", "*"}, o2 \in {"-", "+", "*"}}
    \cup {<<OP("-"), OP("("), OP("-"), NUM("2"), OP("+"), NUM("4"), OP(")")>>,
          <<NUM("2"), OP("*"), OP("("), OP("-"), NUM("2"), OP(")")>>,
          <<NUM("2"), OP("+"), OP("-"), NAME("max"), OP("("), OP("-"), NAME("a"), OP(")")>>,
          <<NAME("min"), OP("("), OP("-"), NAME("a"), OP(","), OP("-"), NUM("2"), OP("*"), NUM("4"), OP(")")>>}

\* the expressions written as arguments of the generated calls
ArgExprs ==
    {<<NAME("a")>>,
     <<STR("'x'")>>,
     <<NAME("a"), OP("+"), NAME("b")>>,
     <<OP("("), NAME("a"), OP("+"), NUM("2"), OP(")"), OP("*"), NUM("3")>>,
     <<OP("-"), NAME("b")>>,
     <<NAME("max"), OP("("), NAME("b"), OP(","), NAME("c"), OP(")")>>,
     <<NUM("3"), OP("*"), NAME("min"), OP("("), NAME("c"), OP(")"), OP("-"), NUM("4")>>,
     <<NAME("pi"), OP("("), OP(")")>>}

RECURSIVE ArgLists(_)
ArgLists(n) ==
    IF n = 0 THEN {<<>>}
    ELSE {Append(l, e) : l \in ArgLists(n - 1), e \in ArgExprs}

RECURSIVE CommaSeparated(_)
CommaSeparated(l) ==
    IF l = <<>> THEN <<>>
    ELSE IF Len(l) = 1 THEN l[1]
    ELSE l[1] \o <<OP(",")>> \o CommaSeparated(Tail(l))

\* f(e1, ..., en), n in 0..MaxArgs
CallExprs ==
    {<<NAME("min"), OP("(")>> \o CommaSeparated(l) \o <<OP(")")>> :
        l \in UNION {ArgLists(n) : n \in 0..MaxArgs}}

\* token sequences that process or evaluate refuses
BadExprs ==
    {<<OP(",")>>,
     <<NUM("1"), OP("+"), NUM("2.5"), OP(",")>>,
     <<OP(")")>>,
     <<NAME("a"), OP(")")>>,
     <<OP("("), NAME("a")>>,
     <<NAME("min"), OP("("), NAME("a")>>,
     <<OP("("), NAME("a"), OP(")"), OP(")")>>,
     <<NAME("a"), OP(","), NAME("b")>>,
     <<OP("*"), NAME("a")>>,
     <<NAME("a"), OP("!"), NAME("b")>>,
     <<NAME("a"), NAME("b")>>,
     <<NAME("a"), OP("."), NAME("b")>>,
     <<NAME("z")>>,
     <<Tok("ENCODING", "")>>}

\* expressions with the keywords and, or: tokenize gives them the type NAME
KeywordExprs ==
    {<<NAME("a"), OP("<"), NAME("b"), NAME("and"), NAME("c"), OP("<"), NAME("d")>>,
     <<NAME("a"), NAME("or"), NAME("b"), NAME("and"), NAME("c")>>,
     <<NAME("a"), NAME("and"), NAME("b")>>,
     <<NAME("a"), NAME("or"), NAME("b")>>}

\* powers of literals, and calls with the string literal 'STOP'
PowerExprs ==
    {<<NUM("2"), OP("^"), NUM("3"), OP("^"), NUM("2")>>,
     <<OP("-"), NUM("2"), OP("^"), NUM("2")>>,
     <<NUM("2"), OP("^"), OP("-"), NAME("a")>>}

StopExprs ==
    {<<NAME("min"), OP("("), STR("'STOP'"), OP(")")>>,
     <<NAME("min"), OP("("), NAME("a"), OP(","), STR("'STOP'"), OP(")")>>,
     <<NAME("min"), OP("("), STR("'STOP'"), OP(","), NAME("b"), OP(")")>>}

Bodies ==
    ChainExprs \cup ParenExprs \cup UnaryExprs \cup CallExprs \cup BadExprs
    \cup KeywordExprs \cup PowerExprs \cup StopExprs

NoResult == [err |-> "", stack |-> <<>>]

\* limit = None
NoLimit == -1

\* a reader whose rows are not known before they are read: any row of the
\* family of the configuration, or any row among those given
Lazy == [known |-> FALSE, rows |-> <<>>, among |-> {}]
LazyAmong(rows) == [known |-> FALSE, rows |-> <<>>, among |-> rows]
KnownFile(rows) == [known |-> TRUE, rows |-> rows, among |-> {}]

\* the pipeline's variables at rest while the expression engine runs
\* execute_rw has read no header
HeaderIdle ==
    /\ header_row = <<>>
    /\ extra = <<>>
    /\ clean_header = <<>>
    /\ hpc = "idle"

PipeIdle ==
    /\ cfg = <<>>
    /\ tr = <<>>
    /\ reader = <<>>
    /\ d = <<>>
    /\ pending = <<>>
    /\ written_header = <<>>
    /\ sink = <<>>
    /\ ppc = "idle"
    /\ trace = <<>>
    /\ runs = <<>>
    /\ csv_in = Lazy
    /\ limit = NoLimit
    /\ produced = <<>>

InitExpr ==
    /\ tokens \in {Tokenized(b) : b \in Bodies} \cup {<<NAME("a")>>}
    /\ value_by_name = <<>>
    /\ pos = 1
    /\ sy = NewShuntingYard
    /\ epc = "begin"
    /\ result = NoResult
    /\ PipeIdle
    /\ HeaderIdle

\* one iteration of the for loop: the state after it
Step(st) ==
    /\ sy' = st
    /\ pos' = pos + 1
    /\ epc' = IF st.error # "" THEN "raised" ELSE "process"
    /\ UNCHANGED <<tokens, value_by_name, result>>
    /\ UNCHANGED pipeVars
    /\ UNCHANGED headVars

InLoop == epc = "process" /\ pos <= Len(tokens)

\* assert next(tokens).type == ENCODING
ProcBegin ==
    /\ epc = "begin"
    /\ IF tokens[1].type = "ENCODING" THEN Step(sy) ELSE Step(Raise(sy, "AssertionError"))

ProcLiteral ==
    /\ InLoop
    /\ tokens[pos].type \in {"NUMBER", "STRING"}
    /\ Step(OnLiteral(sy, tokens[pos]))

ProcIdentifier ==
    /\ InLoop
    /\ _is_identifier(tokens[pos])
    /\ Step(OnIdentifier(sy, tokens[pos]))

ProcCloseParenthese ==
    /\ InLoop
    /\ _is_close_parenthese(tokens[pos])
    /\ Step(OnCloseParenthese(sy))

ProcFunction ==
    /\ InLoop
    /\ _is_function(tokens[pos])
    /\ Step(OnFunction(sy, tokens[pos]))

ProcOpenParenthese ==
    /\ InLoop
    /\ _is_open_parenthese(tokens[pos])
    /\ Step(OnOpenParenthese(sy))

ProcComma ==
    /\ InLoop
    /\ _is_comma(tokens[pos])
    /\ Step(OnComma(sy))

ProcOp ==
    /\ InLoop
    /\ _is_op(tokens[pos])
    /\ Step(OnOp(sy, tokens[pos]))

ProcEndToken ==
    /\ InLoop
    /\ tokens[pos].type \in {"NEWLINE", "ENDMARKER"}
    /\ Step(sy)

ProcBadToken ==
    /\ InLoop
    /\ tokens[pos].type \notin {"NUMBER", "STRING", "NAME", "OP", "NEWLINE", "ENDMARKER"}
    /\ Step(Raise(sy, "ValueError"))

\* after the loop: extend the operand stack and return it
ProcReturn ==
    /\ epc = "process"
    /\ pos > Len(tokens)
    /\ sy' = Drained(sy)
    /\ epc' = "evaluate"
    /\ UNCHANGED <<tokens, value_by_name, pos, result>>
    /\ UNCHANGED pipeVars
    /\ UNCHANGED headVars

\* evaluate(tokens, value_by_name) on the returned instruction sequence
Evaluate ==
    /\ epc = "evaluate"
    /\ \E env \in Envs :
        /\ value_by_name' = env
        /\ result' = evaluate(sy.operand_stack, env)
    /\ epc' = IF result'.err # "" THEN "raised" ELSE "done"
    /\ UNCHANGED <<tokens, pos, sy>>
    /\ UNCHANGED pipeVars
    /\ UNCHANGED headVars

NextExpr ==
    \/ ProcBegin
    \/ ProcLiteral
    \/ ProcIdentifier
    \/ ProcCloseParenthese
    \/ ProcFunction
    \/ ProcOpenParenthese
    \/ ProcComma
    \/ ProcOp
    \/ ProcEndToken
    \/ ProcBadToken
    \/ ProcReturn
    \/ Evaluate

SpecExpr == InitExpr /\ [][NextExpr]_vars

-----------------------------------------------------------------------------
(* Claims about the expression engine (checked under SpecExpr) *)

\* the expression as written: the tokens between ENCODING and NEWLINE
Body(toks) == SubSeq(toks, 2, Len(toks) - 2)

IsOperand(t) == t.type \in {"NUMBER", "STRING"} \/ _is_identifier(t)

\* b is written after the pattern p: "x" an operand, "o" a binary operator
\* with a function, anything else that very OP token
Shape(b, p) ==
    /\ Len(b) = Len(p)
    /\ \A i \in 1..Len(p) :
        CASE p[i] = "x" -> IsOperand(b[i])
          [] p[i] = "o" -> b[i].type = "OP" /\ b[i].string \in ArithOps
          [] OTHER -> b[i] = OP(p[i])

\* the value an operand token stands for
ValueOf(t, env) == IF t.type = "NAME" THEN env[t.string] ELSE t.string

Rank(o) == binop_by_name[o].precedence

Evaluated == epc = "done" \/ (epc = "raised" /\ pos > Len(tokens))
Returned(v) == epc = "done" /\ result.stack[1] = v

\* (x o1 y) o2 z and x o1 (y o2 z) on the values of the operands
GroupLeft(o1, o2, x, y, z) == BinFunc(o2, BinFunc(o1, x, y), z)
GroupRight(o1, o2, x, y, z) == BinFunc(o1, x, BinFunc(o2, y, z))

\* C6: in x o1 y o2 z with operators of different rank the operator of the
\* smaller rank is applied first, whatever the textual order, and a
\* parenthesised sub-expression is evaluated as a unit.
C6_Precedence ==
    LET b == Body(tokens)
        env == value_by_name
    IN  /\ (Shape(b, <<"x", "o", "x", "o", "x">>) /\ Rank(b[2].string) # Rank(b[4].string)
            /\ (epc \in {"done", "raised"}))
           => Returned(IF Rank(b[2].string) < Rank(b[4].string)
                       THEN GroupLeft(b[2].string, b[4].string, ValueOf(b[1], env),
                                      ValueOf(b[3], env), ValueOf(b[5], env))
                       ELSE GroupRight(b[2].string, b[4].string, ValueOf(b[1], env),
                                       ValueOf(b[3], env), ValueOf(b[5], env)))
        /\ (Shape(b, <<"(", "x", "o", "x", ")", "o", "x">>) /\ (epc \in {"done", "raised"}))
           => Returned(GroupLeft(b[3].string, b[6].string, ValueOf(b[2], env),
                                 ValueOf(b[4], env), ValueOf(b[7], env)))
        /\ (Shape(b, <<"x", "o", "(", "x", "o", "x", ")">>) /\ (epc \in {"done", "raised"}))
           => Returned(GroupRight(b[2].string, b[5].string, ValueOf(b[1], env),
                                  ValueOf(b[4], env), ValueOf(b[6], env)))

\* a+b*c has been evaluated to a+(b*c)
C6_Witness ==
    /\ Body(tokens) = <<NAME("a"), OP("+"), NAME("b"), OP("*"), NAME("c")>>
    /\ value_by_name = [n \in IdentNames |-> IF n = "a" THEN "'STOP'" ELSE "1"]
    /\ Returned("('STOP'+(1*1))")

LeftAssocGroups == {{"+", "-"}, {"*", "/", "%"}}

\* C7: x o1 y o2 z with o1, o2 both among + - or both among * / % evaluates
\* to (x o1 y) o2 z.
C7_LeftAssociative ==
    LET b == Body(tokens)
        env == value_by_name
    IN  (/\ Shape(b, <<"x", "o", "x", "o", "x">>)
         /\ \E g \in LeftAssocGroups : b[2].string \in g /\ b[4].string \in g
         /\ epc \in {"done", "raised"})
        => Returned(GroupLeft(b[2].string, b[4].string, ValueOf(b[1], env),
                              ValueOf(b[3], env), ValueOf(b[5], env)))

\* a-b-c has been evaluated to (a-b)-c
C7_Witness ==
    /\ Body(tokens) = <<NAME("a"), OP("-"), NAME("b"), OP("-"), NAME("c")>>
    /\ value_by_name = [n \in IdentNames |-> "1"]
    /\ Returned("((1-1)-1)")

\* the token before the one being processed ends an operand
AfterOperand == IsOperand(tokens[pos - 1]) \/ _is_close_parenthese(tokens[pos - 1])

\* the step of process that handles an operator token: it ends with the
\* operator on top of the operator stack, or raises
OpStepAsBinary ==
    IF tokens[pos].string \in DOMAIN binop_by_name
    THEN epc' = "process" /\ Last(sy'.operator_stack) = BinOp(tokens[pos].string)
    ELSE epc' = "raised"

OpStepAsPrefix ==
    IF tokens[pos].string \in PrefixOpNames
    THEN epc' = "process" /\ Last(sy'.operator_stack) = PrefixUnOp(tokens[pos].string)
    ELSE epc' = "raised"

C8_Classified ==
    (InLoop /\ _is_op(tokens[pos]))
        => IF AfterOperand THEN OpStepAsBinary ELSE OpStepAsPrefix

C8_Examples ==
    LET b == Body(tokens)
        env == value_by_name
        m(x) == UnFunc("-", x)
    IN  /\ (Shape(b, <<"-", "x", "+", "x">>) /\ epc \in {"done", "raised"})
           => Returned(BinFunc("+", m(ValueOf(b[2], env)), ValueOf(b[4], env)))
        /\ (Shape(b, <<"x", "*", "-", "x">>) /\ epc \in {"done", "raised"})
           => Returned(BinFunc("*", ValueOf(b[1], env), m(ValueOf(b[4], env))))
        /\ (Shape(b, <<"-", "-", "x">>) /\ epc \in {"done", "raised"})
           => Returned(m(m(ValueOf(b[3], env))))
        /\ (Shape(b, <<"x", "-", "-", "x", "-", "x">>) /\ epc \in {"done", "raised"})
           => Returned(BinFunc("-", BinFunc("-", ValueOf(b[1], env), m(ValueOf(b[4], env))),
                               ValueOf(b[6], env)))

\* C8: an operator token is parsed as binary exactly when the previous token
\* was a literal, an identifier or a closing parenthesis, and as prefix unary
\* otherwise; so -a+b = (-a)+b, a*-b = a*(-b), --a = -(-a), a--b-c = (a-(-b))-c.
C8_UnaryOrBinary == [][C8_Classified]_vars /\ []C8_Examples

\* a--b-c has been evaluated to (a-(-b))-c
C8_Witness ==
    /\ Body(tokens) = <<NAME("a"), OP("-"), OP("-"), NAME("b"), OP("-"), NAME("c")>>
    /\ value_by_name = [n \in IdentNames |-> "1"]
    /\ Returned("((1-(-1))-1)")

\* the arguments as written between the parentheses of a call: inner split at
\* the commas that are outside every nested parenthesis
RECURSIVE SplitArgs(_, _, _, _)
SplitArgs(inner, depth, cur, acc) ==
    IF inner = <<>> THEN (IF cur = <<>> /\ acc = <<>> THEN <<>> ELSE Append(acc, cur))
    ELSE LET t == Head(inner)
             split == _is_comma(t) /\ depth = 0
         IN  SplitArgs(Tail(inner),
                       CASE _is_open_parenthese(t) -> depth + 1
                         [] _is_close_parenthese(t) -> depth - 1
                         [] OTHER -> depth,
                       IF split THEN <<>> ELSE Append(cur, t),
                       IF split THEN Append(acc, cur) ELSE acc)

\* the expression is one call f(...) of a function of the table
IsCall(b) ==
    /\ Len(b) >= 3
    /\ _is_function(b[1])
    /\ b[1].string \in FunctionNames
    /\ _is_open_parenthese(b[2])
    /\ _is_close_parenthese(b[Len(b)])
    /\ \A i \in 3..(Len(b) - 1) :
          Cardinality({j \in 3..i : _is_close_parenthese(b[j])})
              <= Cardinality({j \in 3..i : _is_open_parenthese(b[j])})

WrittenArgs(b) == SplitArgs(SubSeq(b, 3, Len(b) - 1), 0, <<>>, <<>>)

\* the value of an expression evaluated on its own
ValueAlone(e, env) == evaluate(process(Tokenized(e)).operand_stack, env).stack[1]

\* C9: a call f(e1, ..., en) invokes f with exactly n arguments, the values
\* of e1..en in written order.
C9_CallArguments ==
    LET b == Body(tokens)
    IN  (IsCall(b) /\ epc \in {"done", "raised"})
        => LET args == WrittenArgs(b)
           IN  Returned(CallFunc(b[1].string,
                                 [i \in 1..Len(args) |-> ValueAlone(args[i], value_by_name)]))

\* the same when no identifier is bound to the str 'STOP' and no literal
\* is that str
C9_CallArgumentsNoStop ==
    LET b == Body(tokens)
    IN  (IsCall(b) /\ epc \in {"done", "raised"})
        => LET args == WrittenArgs(b)
               vals == [i \in 1..Len(args) |-> ValueAlone(args[i], value_by_name)]
           IN  (/\ \A n \in IdentNames : value_by_name[n] # StopValue
                /\ \A i \in 1..Len(b) : b[i] # STR(StopValue))
                   => Returned(CallFunc(b[1].string, vals))


-----------------------------------------------------------------------------
(* Python dicts: a sequence of [k, v] entries in insertion order *)

NONE == "None"

Entry(k, v) == [k |-> k, v |-> v]
Keys(dict) == [i \in 1..Len(dict) |-> dict[i].k]
KeySet(dict) == {dict[i].k : i \in 1..Len(dict)}
HasKey(dict, k) == \E i \in 1..Len(dict) : dict[i].k = k
Get(dict, k) == dict[CHOOSE i \in 1..Len(dict) : dict[i].k = k].v
Put(dict, k, v) ==
    IF HasKey(dict, k)
    THEN [i \in 1..Len(dict) |-> IF dict[i].k = k THEN Entry(k, v) ELSE dict[i]]
    ELSE Append(dict, Entry(k, v))

\* dict(zip(keys, vals))
RECURSIVE DictOfZip(_, _, _)
DictOfZip(keys, vals, acc) ==
    IF keys = <<>> \/ vals = <<>> THEN acc
    ELSE DictOfZip(Tail(keys), Tail(vals), Put(acc, Head(keys), Head(vals)))

\* the row as the environment of evaluate
EnvOf(dict) == [k \in KeySet(dict) |-> Get(dict, k)]

Ok(v) == [err |-> "", val |-> v]
Err(e) == [err |-> e, val |-> ""]

\* the truth value Python gives a value in `if` and `all`
Truthy(v) == v \notin {"False", "None", "0", "''"}

-----------------------------------------------------------------------------
(* functions.py and en_functions.py *)

\* normalize: unidecode, lower case, non-word runs to "_"
normalize(text) ==
    CASE text = "A" -> "a"
      [] text = "Y" -> "y"
      [] text = "R" -> "r"
      [] text = "N" -> "n"
      [] OTHER -> text

\* int() of the texts that are numbers
IntOfText == [s \in {"'1'", "'2'"} |-> IF s = "'1'" THEN "1" ELSE "2"]

\* str_to_int
str_to_int(s) == IF s \in DOMAIN IntOfText THEN Ok(IntOfText[s]) ELSE Err("ValueError")

FUNC_BY_TYPE == {"int"}
FUNC_BY_AGG == {"count", "string_agg"}

\* an aggregate function applied to the list of a group's values
AggFunc(name, values) ==
    IF name = "count" THEN ToString(Len(values))
    ELSE name \o "(" \o JoinComma(values) \o ")"

id_func == [kind |-> "id_func", name |-> "", instr |-> <<>>]
true_func == [kind |-> "true_func", name |-> "", instr |-> <<>>]
NamedFunc(name) == [kind |-> "func", name |-> name, instr |-> <<>>]
Lambda(kind, instr) == [kind |-> kind, name |-> "", instr |-> instr]

\* return stack[0] of evaluate, or what it raised: [err, val]
StackTop(r) == IF r.err = "" THEN Ok(r.stack[1]) ELSE Err(r.err)

\* the call of one of the callables a transformation holds
Call(f, arg) ==
    CASE f.kind = "id_func" -> Ok(arg)
      [] f.kind = "true_func" -> Ok("True")
      [] f.kind = "func" -> str_to_int(arg)
      [] f.kind = "expression" -> StackTop(evaluate(f.instr, [n \in {"it"} |-> arg]))
      [] f.kind = "entity_filter" -> StackTop(evaluate(f.instr, EnvOf(arg)))


-----------------------------------------------------------------------------
(* transformation.py: the builders *)

\* a key the JSON document does not hold
Absent == <<>>

DefaultColumnTransformation(visible, normalize_) ==
    [visible |-> visible, normalize |-> normalize_]

\* DefaultColumnTransformation.rename
default_rename(default, name) == IF default.normalize THEN normalize(name) ELSE name

\* EntityFilterParser.parse and ExpressionParser.parse: [err, f]
ParserParse(kind, expr) ==
    Bind(process(expr), LAMBDA p : [err |-> p.error, f |-> Lambda(kind, p.operand_stack)])

_parse_col_visible(default, col_visible) ==
    IF col_visible = NONE THEN default.visible ELSE col_visible = "True"

_parse_col_filter(col_filter_str) ==
    IF col_filter_str = Absent THEN [err |-> "", f |-> true_func]
    ELSE ParserParse("expression", col_filter_str)

\* a variant that takes any name for an aggregate
_parse_col_agg_of_any(col_agg_str) == col_agg_str

_parse_col_agg(col_agg_str) ==
    IF col_agg_str = NONE THEN NONE
    ELSE IF col_agg_str \in FUNC_BY_AGG THEN col_agg_str
    ELSE NONE

\* the text of a type that is no key of FUNC_BY_TYPE, as tokenize_expr reads it
TypeExpr(col_type_str) == Tokenized(<<NAME(col_type_str)>>)

_parse_col_type(col_type_str) ==
    IF col_type_str = NONE THEN [err |-> "", f |-> id_func]
    ELSE IF col_type_str \in FUNC_BY_TYPE THEN [err |-> "", f |-> NamedFunc(col_type_str)]
    ELSE ParserParse("expression", TypeExpr(col_type_str))

_parse_col_map(col_map_str) ==
    IF col_map_str = Absent THEN [err |-> "", f |-> id_func]
    ELSE ParserParse("expression", col_map_str)

_parse_col_formula(col_formula_str) == ParserParse("entity_filter", col_formula_str)

\* the first exception of a sequence of steps, "" when none raised
FirstError(errs) ==
    IF \A i \in 1..Len(errs) : errs[i] = "" THEN ""
    ELSE errs[CHOOSE i \in 1..Len(errs) : errs[i] # "" /\ \A j \in 1..(i - 1) : errs[j] = ""]

\* ColumnTransformationBuilder.build: id and rename are kept as the constant
\* the lambda returns, NONE standing for the default rename (for rename) and
\* for the column's rename (for id)
BuildColumn(default, json_col) ==
    Bind(<<_parse_col_type(json_col.type), _parse_col_filter(json_col.filter),
           _parse_col_map(json_col.map)>>,
         LAMBDA p :
            [err |-> FirstError(<<p[1].err, p[2].err, p[3].err>>),
             col |-> [id |-> json_col.id,
                      visible |-> _parse_col_visible(default, json_col.visible),
                      type |-> p[1].f,
                      filter |-> p[2].f,
                      map |-> p[3].f,
                      agg |-> _parse_col_agg(json_col.agg),
                      rename |-> json_col.rename,
                      order |-> json_col.order]])

\* NewColumnTransformationBuilder.build
BuildNewColumn(default, new_col) ==
    Bind(<<_parse_col_filter(new_col.filter), _parse_col_formula(new_col.formula)>>,
         LAMBDA p :
            [err |-> FirstError(<<p[1].err, p[2].err>>),
             col |-> [id |-> new_col.id,
                      visible |-> _parse_col_visible(default, new_col.visible),
                      filter |-> p[1].f,
                      formula |-> p[2].f,
                      agg |-> _parse_col_agg(new_col.agg),
                      name |-> IF new_col.rename = NONE THEN new_col.id ELSE new_col.rename,
                      order |-> new_col.order]])

\* ColumnTransformation.rename and get_id
col_rename_of(default, col, name) ==
    IF col.rename = NONE THEN default_rename(default, name) ELSE col.rename

\* a get_id that forgets the explicit identifier
get_id_of_rename(default, col, name) == col_rename_of(default, col, name)

get_id(default, col, name) ==
    IF col.id = NONE THEN col_rename_of(default, col, name) ELSE col.id

\* Transformation.__init__: the two dicts keyed by identifier
RECURSIVE ByIdFrom(_, _, _, _)
ByIdFrom(default, by_name, i, acc) ==
    IF i > Len(by_name) THEN acc
    ELSE ByIdFrom(default, by_name, i + 1,
                  Put(acc, get_id(default, by_name[i].v, by_name[i].k), by_name[i].v))

RECURSIVE NewByIdFrom(_, _, _)
NewByIdFrom(news, i, acc) ==
    IF i > Len(news) THEN acc
    ELSE NewByIdFrom(news, i + 1, Put(acc, news[i].id, news[i]))

Transformation(entity_filter, agg_filter_, default, by_name, news) ==
    [entity_filter |-> entity_filter,
     agg_filter |-> agg_filter_,
     default |-> default,
     col_transformation_by_name |-> by_name,
     new_col_transformations |-> news,
     col_transformation_by_id |-> ByIdFrom(default, by_name, 1, <<>>),
     new_col_transformation_by_id |-> NewByIdFrom(news, 1, <<>>)]

\* TransformationJsonParser.parse: [err, t]
Parse(json) ==
    Bind(<<IF json.entity_filter = Absent THEN [err |-> "", f |-> true_func]
           ELSE ParserParse("entity_filter", json.entity_filter),
           IF json.agg_filter = Absent THEN [err |-> "", f |-> true_func]
           ELSE ParserParse("entity_filter", json.agg_filter),
           DefaultColumnTransformation(json.default_col.visible, json.default_col.normalize),
           [i \in 1..Len(json.cols) |->
               BuildColumn(DefaultColumnTransformation(json.default_col.visible,
                                                       json.default_col.normalize),
                           json.cols[i])],
           [i \in 1..Len(json.new_cols) |->
               BuildNewColumn(DefaultColumnTransformation(json.default_col.visible,
                                                          json.default_col.normalize),
                              json.new_cols[i])]>>,
         LAMBDA p :
            [err |-> IF \/ p[1].err # "" \/ p[2].err # ""
                        \/ \E i \in 1..Len(p[4]) : p[4][i].err # ""
                        \/ \E i \in 1..Len(p[5]) : p[5][i].err # ""
                     THEN "ParseError" ELSE "",
             t |-> Transformation(p[1].f, p[2].f, p[3],
                       [i \in 1..Len(p[4]) |-> Entry(json.cols[i].name, p[4][i].col)],
                       [i \in 1..Len(p[5]) |-> p[5][i].col])])

-----------------------------------------------------------------------------
(* transformation.py: Transformation *)

_col_transformation_by_name(t) == t.col_transformation_by_name
_col_transformation_by_id(t) == t.col_transformation_by_id
_new_col_transformation_by_id(t) == t.new_col_transformation_by_id

_col_id(t, name) ==
    IF HasKey(_col_transformation_by_name(t), name)
    THEN get_id(t.default, Get(_col_transformation_by_name(t), name), name)
    ELSE default_rename(t.default, name)

\* by_id.get(col_id, new_by_id.get(col_id)): [found, col]
GetEither(t, col_id) ==
    IF HasKey(_col_transformation_by_id(t), col_id)
    THEN [found |-> TRUE, agg |-> Get(_col_transformation_by_id(t), col_id).agg,
          filter |-> Get(_col_transformation_by_id(t), col_id).filter]
    ELSE IF HasKey(_new_col_transformation_by_id(t), col_id)
    THEN [found |-> TRUE, agg |-> Get(_new_col_transformation_by_id(t), col_id).agg,
          filter |-> Get(_new_col_transformation_by_id(t), col_id).filter]
    ELSE [found |-> FALSE, agg |-> NONE, filter |-> true_func]

_col_is_agg(t, col_id) == Bind(GetEither(t, col_id), LAMBDA e : e.found /\ e.agg # NONE)

has_agg(t) ==
    \E i \in 1..Len(_col_transformation_by_id(t)) :
        _col_is_agg(t, _col_transformation_by_id(t)[i].k)

\* a variant that shows the identifier of the column
_col_rename_by_id(t, name) == _col_id(t, name)

_col_rename(t, name) ==
    IF HasKey(_col_transformation_by_name(t), name)
    THEN col_rename_of(t.default, Get(_col_transformation_by_name(t), name), name)
    ELSE default_rename(t.default, name)

_col_is_visible_by_name(t, name) ==
    IF HasKey(_col_transformation_by_name(t), name)
    THEN Get(_col_transformation_by_name(t), name).visible
    ELSE t.default.visible

_new_col_is_visible_by_id(t, col_id) ==
    IF HasKey(_new_col_transformation_by_id(t), col_id)
    THEN Get(_new_col_transformation_by_id(t), col_id).visible
    ELSE t.default.visible

_col_is_visible_by_id(t, col_id) ==
    IF HasKey(_col_transformation_by_id(t), col_id)
    THEN Get(_col_transformation_by_id(t), col_id).visible
    ELSE t.default.visible

\* the elements of s that satisfy keep, in order
RECURSIVE SelectIdx(_, _, _)
SelectIdx(s, keep, i) ==
    IF i > Len(s) THEN <<>>
    ELSE (IF i \in keep THEN <<s[i]>> ELSE <<>>) \o SelectIdx(s, keep, i + 1)

file_header(t, header) ==
    LET news == t.new_col_transformations
    IN  SelectIdx([i \in 1..Len(header) |-> _col_rename(t, header[i])],
                  {i \in 1..Len(header) : _col_is_visible_by_name(t, header[i])}, 1)
        \o SelectIdx([i \in 1..Len(news) |-> news[i].name],
                     {i \in 1..Len(news) : _new_col_is_visible_by_id(t, news[i].id)}, 1)

col_ids(t, header) ==
    [i \in 1..Len(header) |-> _col_id(t, header[i])]
    \o [i \in 1..Len(t.new_col_transformations) |-> t.new_col_transformations[i].id]

visible_col_ids(t, header) ==
    LET news == t.new_col_transformations
    IN  SelectIdx([i \in 1..Len(header) |-> _col_id(t, header[i])],
                  {i \in 1..Len(header) : _col_is_visible_by_name(t, header[i])}, 1)
        \o SelectIdx([i \in 1..Len(news) |-> news[i].id],
                     {i \in 1..Len(news) : news[i].visible}, 1)


\* _type_value: the KeyError of the lookup or of the type function is caught
\* ColumnTransformation.type_value: [err, val]
type_value(col, value_str) == Call(col.type, value_str)

_type_value(t, col_id, value) ==
    IF ~HasKey(_col_transformation_by_id(t), col_id) THEN Ok(value)
    ELSE Bind(Call(Get(_col_transformation_by_id(t), col_id).type, value),
              LAMBDA r : IF r.err = "KeyError" THEN Ok(value) ELSE r)

\* _type_row: [err, row]
RECURSIVE TypeRowFrom(_, _, _, _)
TypeRowFrom(t, value_by_id, i, acc) ==
    IF i > Len(value_by_id) THEN [err |-> "", row |-> acc]
    ELSE Bind(_type_value(t, value_by_id[i].k, value_by_id[i].v),
              LAMBDA r : IF r.err # "" THEN [err |-> r.err, row |-> acc]
                         ELSE TypeRowFrom(t, value_by_id, i + 1,
                                          Append(acc, Entry(value_by_id[i].k, r.val))))

_type_row(t, value_by_id) == TypeRowFrom(t, value_by_id, 1, <<>>)

\* _extend_row: [err, row]
RECURSIVE ExtendRowFrom(_, _, _)
ExtendRowFrom(t, typed_value_by_id, i) ==
    IF i > Len(t.new_col_transformations) THEN [err |-> "", row |-> typed_value_by_id]
    ELSE Bind(Call(t.new_col_transformations[i].formula, typed_value_by_id),
              LAMBDA r : IF r.err # "" THEN [err |-> r.err, row |-> typed_value_by_id]
                         ELSE ExtendRowFrom(t,
                                  Put(typed_value_by_id, t.new_col_transformations[i].id,
                                      r.val),
                                  i + 1))

_extend_row(t, typed_value_by_id) == ExtendRowFrom(t, typed_value_by_id, 1)

\* _col_map: the KeyError of the lookup or of the map expression is caught
_col_map(t, col_id, value) ==
    IF ~HasKey(_col_transformation_by_id(t), col_id) THEN Ok(value)
    ELSE Bind(Call(Get(_col_transformation_by_id(t), col_id).map, value),
              LAMBDA r : IF r.err = "KeyError" THEN Ok(value) ELSE r)

\* _map: [err, row]
RECURSIVE MapFrom(_, _, _, _)
MapFrom(t, typed_value_by_id, i, acc) ==
    IF i > Len(typed_value_by_id) THEN [err |-> "", row |-> acc]
    ELSE Bind(_col_map(t, typed_value_by_id[i].k, typed_value_by_id[i].v),
              LAMBDA r : IF r.err # "" THEN [err |-> r.err, row |-> acc]
                         ELSE MapFrom(t, typed_value_by_id, i + 1,
                                      Append(acc, Entry(typed_value_by_id[i].k, r.val))))

_map(t, typed_value_by_id) == MapFrom(t, typed_value_by_id, 1, <<>>)

\* _col_filter
_col_filter(t, col_id, value) ==
    Bind(GetEither(t, col_id),
         LAMBDA e : IF ~e.found THEN Ok("True") ELSE Call(e.filter, value))

\* all(self._col_filter(col_id, value) for ...): [err, ok, log], log the
\* column identifiers whose filter was evaluated, in order
RECURSIVE AllColFilters(_, _, _, _)
AllColFilters(t, typed_value_by_id, i, log) ==
    IF i > Len(typed_value_by_id) THEN [err |-> "", ok |-> TRUE, log |-> log]
    ELSE Bind(_col_filter(t, typed_value_by_id[i].k, typed_value_by_id[i].v),
              LAMBDA r :
                 IF r.err # "" \/ ~Truthy(r.val)
                 THEN [err |-> r.err, ok |-> FALSE,
                       log |-> Append(log, typed_value_by_id[i].k)]
                 ELSE AllColFilters(t, typed_value_by_id, i + 1,
                                    Append(log, typed_value_by_id[i].k)))

\* what the log holds for the evaluation of the entity filter
EntityFilterMark == "<entity_filter>"

\* a _filter that asks the entity filter only
_filter_entity_only(t, typed_value_by_id) ==
    Bind(Call(t.entity_filter, typed_value_by_id),
         LAMBDA r : [err |-> r.err, ok |-> r.err = "" /\ Truthy(r.val),
                     log |-> <<EntityFilterMark>>])

\* a _filter that evaluates the column filters whatever the entity filter says
_filter_no_short_circuit(t, typed_value_by_id) ==
    Bind(<<Call(t.entity_filter, typed_value_by_id),
           AllColFilters(t, typed_value_by_id, 1, <<EntityFilterMark>>)>>,
         LAMBDA p :
            IF p[1].err # "" THEN [err |-> p[1].err, ok |-> FALSE, log |-> <<EntityFilterMark>>]
            ELSE [err |-> p[2].err, ok |-> Truthy(p[1].val) /\ p[2].ok, log |-> p[2].log])

\* _filter: [err, ok, log]
_filter(t, typed_value_by_id) ==
    Bind(Call(t.entity_filter, typed_value_by_id),
         LAMBDA r :
            IF r.err = "" /\ Truthy(r.val)
            THEN AllColFilters(t, typed_value_by_id, 1, <<EntityFilterMark>>)
            ELSE [err |-> r.err, ok |-> FALSE, log |-> <<EntityFilterMark>>])

\* a row that raised before it reached _filter
Unprepared(err, typed) ==
    [err |-> err, typed |-> typed, row |-> <<>>, log |-> <<>>, ok |-> FALSE]

\* a variant that maps the typed values before it extends the row
Prepared_map_before_extend(t, value_by_id) ==
    Bind(_type_row(t, value_by_id), LAMBDA typed :
        IF typed.err # "" THEN Unprepared(typed.err, <<>>)
        ELSE Bind(_map(t, typed.row), LAMBDA mapped :
            IF mapped.err # "" THEN Unprepared(mapped.err, typed.row)
            ELSE Bind(_extend_row(t, mapped.row), LAMBDA extended :
                IF extended.err # "" THEN Unprepared(extended.err, typed.row)
                ELSE Bind(_filter(t, extended.row), LAMBDA filtered :
                    [err |-> filtered.err, typed |-> typed.row, row |-> extended.row,
                     log |-> filtered.log, ok |-> filtered.err = "" /\ filtered.ok]))))

\* the steps transform and take_or_ignore share: type, extend, map, filter
Prepared(t, value_by_id) ==
    Bind(_type_row(t, value_by_id), LAMBDA typed :
        IF typed.err # "" THEN Unprepared(typed.err, <<>>)
        ELSE Bind(_extend_row(t, typed.row), LAMBDA extended :
            IF extended.err # "" THEN Unprepared(extended.err, typed.row)
            ELSE Bind(_map(t, extended.row), LAMBDA mapped :
                IF mapped.err # "" THEN Unprepared(mapped.err, typed.row)
                ELSE Bind(_filter(t, mapped.row), LAMBDA filtered :
                    [err |-> filtered.err, typed |-> typed.row, row |-> mapped.row,
                     log |-> filtered.log, ok |-> filtered.err = "" /\ filtered.ok]))))

\* transform: the typed row, or None (ok false)
transform(t, value_by_id) == Prepared(t, value_by_id)

\* the key of take_or_ignore
RECURSIVE KeyFrom(_, _, _)
KeyFrom(t, typed_value_by_id, i) ==
    IF i > Len(typed_value_by_id) THEN <<>>
    ELSE LET e == typed_value_by_id[i]
         IN  (IF ~_col_is_agg(t, e.k) /\ _col_is_visible_by_id(t, e.k) THEN <<e>> ELSE <<>>)
             \o KeyFrom(t, typed_value_by_id, i + 1)

GroupKey(t, typed_value_by_id) == KeyFrom(t, typed_value_by_id, 1)

\* the loop of take_or_ignore over _col_transformation_by_id: [err, d]
RECURSIVE Accumulate(_, _, _, _, _)
Accumulate(t, typed_value_by_id, key, i, acc) ==
    IF i > Len(_col_transformation_by_id(t)) THEN [err |-> "", d |-> acc]
    ELSE LET col_id == _col_transformation_by_id(t)[i].k
             values_by_id == IF HasKey(acc, key) THEN Get(acc, key) ELSE <<>>
             values == IF HasKey(values_by_id, col_id)
                       THEN Get(values_by_id, col_id) ELSE <<>>
         IN  IF _col_is_agg(t, col_id) /\ ~HasKey(typed_value_by_id, col_id)
             THEN [err |-> "KeyError", d |-> acc]
             ELSE Accumulate(t, typed_value_by_id, key, i + 1,
                      IF ~_col_is_agg(t, col_id) THEN acc
                      ELSE Put(acc, key,
                               Put(values_by_id, col_id,
                                   Append(values, Get(typed_value_by_id, col_id)))))

\* take_or_ignore: [err, d, and what Prepared gives]
take_or_ignore(t, dd, value_by_id) ==
    Bind(Prepared(t, value_by_id), LAMBDA p :
        IF ~p.ok THEN [err |-> p.err, d |-> dd, p |-> p, key |-> <<>>]
        ELSE Bind(GroupKey(t, p.row), LAMBDA key :
            Bind(Accumulate(t, p.row, key, 1, dd), LAMBDA a :
                [err |-> a.err, d |-> a.d, p |-> p, key |-> key])))

\* _rename
RECURSIVE RenameFrom(_, _, _, _)
RenameFrom(t, row, i, acc) ==
    IF i > Len(row) THEN acc
    ELSE RenameFrom(t, row, i + 1, Put(acc, _col_rename(t, row[i].k), row[i].v))

_rename(t, row) == RenameFrom(t, row, 1, <<>>)

\* the row agg_rows builds of one item of _d, before _rename
RECURSIVE AggRowFrom(_, _, _, _)
AggRowFrom(t, values_by_id, i, row) ==
    IF i > Len(values_by_id) THEN row
    ELSE AggRowFrom(t, values_by_id, i + 1,
             Put(row, values_by_id[i].k,
                 AggFunc(Get(_col_transformation_by_id(t), values_by_id[i].k).agg,
                         values_by_id[i].v)))

\* one iteration of agg_rows: the row yielded for the item (key, values_by_id)
agg_row(t, item) == _rename(t, AggRowFrom(t, item.v, 1, item.k))

\* a variant that applies the entity filter to the aggregated row
agg_filter_of_entity(t, value_by_id) == Call(t.entity_filter, value_by_id)

\* agg_filter: [err, val]
agg_filter(t, value_by_id) == Call(t.agg_filter, value_by_id)

\* [value_by_id.get(i, "") for i in visible_col_ids]
EmptyText == "''"

WrittenRow(value_by_id, ids) ==
    [i \in 1..Len(ids) |-> IF HasKey(value_by_id, ids[i]) THEN Get(value_by_id, ids[i])
                            ELSE EmptyText]


\* has_order: some column declares a sort rank
has_order(t) ==
    \/ \E i \in 1..Len(t.col_transformation_by_name) :
          t.col_transformation_by_name[i].v.order # NONE
    \/ \E i \in 1..Len(t.new_col_transformations) :
          t.new_col_transformations[i].order # NONE

\* the sort ranks a column can declare: the texts of signed integers
int_of_rank ==
    [r \in {"1", "-1", "2", "-2", "3", "-4"} |->
        CASE r = "1" -> 1 [] r = "-1" -> -1 [] r = "2" -> 2 [] r = "-2" -> -2
          [] r = "3" -> 3 [] OTHER -> -4]

Abs(n) == IF n < 0 THEN -n ELSE n

\* the sort rank of the column of an identifier, NONE when it has none
OrderOfId(t, col_id) ==
    IF HasKey(_col_transformation_by_id(t), col_id)
    THEN Get(_col_transformation_by_id(t), col_id).order
    ELSE IF HasKey(_new_col_transformation_by_id(t), col_id)
    THEN Get(_new_col_transformation_by_id(t), col_id).order
    ELSE NONE

\* the identifiers of ids that come before position i of the key: smaller
\* absolute rank, or the same and declared earlier
KeyPosition(t, ids, i) ==
    Cardinality({j \in 1..Len(ids) :
        \/ Abs(int_of_rank[OrderOfId(t, ids[j])]) < Abs(int_of_rank[OrderOfId(t, ids[i])])
        \/ (Abs(int_of_rank[OrderOfId(t, ids[j])]) = Abs(int_of_rank[OrderOfId(t, ids[i])])
            /\ j <= i)})

\* create_key: the identifiers of the ranked columns, by ascending absolute
\* rank
create_key(t, ids) ==
    Bind(SelectIdx(ids, {i \in 1..Len(ids) : OrderOfId(t, ids[i]) # NONE}, 1),
         LAMBDA ranked :
            [k \in 1..Len(ranked) |->
                ranked[CHOOSE i \in 1..Len(ranked) : KeyPosition(t, ranked, i) = k]])

\* the natural order of the values: the ints, and the texts
natural_order ==
    <<"0", "1", "2", "3", "4", "5", "6", "7", "8", "9", "'1'", "'2'", "'x'">>

NaturalLess(v, w) ==
    (CHOOSE i \in 1..Len(natural_order) : natural_order[i] = v)
        < (CHOOSE i \in 1..Len(natural_order) : natural_order[i] = w)

\* the key of row1 is smaller than the key of row2: the first component
\* that differs decides, reversed when the rank is negative
RECURSIVE KeyLess(_, _, _, _, _)
KeyLess(t, key_ids, k, row1, row2) ==
    IF k > Len(key_ids) THEN FALSE
    ELSE IF Get(row1, key_ids[k]) = Get(row2, key_ids[k])
    THEN KeyLess(t, key_ids, k + 1, row1, row2)
    ELSE IF int_of_rank[OrderOfId(t, key_ids[k])] > 0
    THEN NaturalLess(Get(row1, key_ids[k]), Get(row2, key_ids[k]))
    ELSE NaturalLess(Get(row2, key_ids[k]), Get(row1, key_ids[k]))

\* sorted() is stable: an item goes before the first item of a greater key
Inserted(t, key_ids, acc, item) ==
    Bind(Cardinality({j \in 1..Len(acc) :
                        \A i \in 1..j : ~KeyLess(t, key_ids, 1, item.row, acc[i].row)}),
         LAMBDA n : SubSeq(acc, 1, n) \o <<item>> \o SubSeq(acc, n + 1, Len(acc)))

RECURSIVE SortedFrom(_, _, _, _, _)
SortedFrom(t, key_ids, items, i, acc) ==
    IF i > Len(items) THEN acc
    ELSE SortedFrom(t, key_ids, items, i + 1, Inserted(t, key_ids, acc, items[i]))

\* a sorted() that leaves the rows as they were yielded
sorted_as_yielded(t, items, key_ids) == items

\* sorted(generator, key=transformation.create_key(col_ids))
sorted(t, items, key_ids) == SortedFrom(t, key_ids, items, 1, <<>>)

\* a variant of islice that gives one row more
islice_ended_late(n_read, lim) == lim # NoLimit /\ n_read > lim

\* itertools.islice(reader, limit) gives no row after the first limit rows
islice_ended(n_read, lim) == lim # NoLimit /\ n_read >= lim

-----------------------------------------------------------------------------
(* The configurations and inputs given to the pipeline *)

\* largest number of data rows of an input
MaxRows == 2

\* the header of the input after add_fields and improve_header
Header == <<"A", "b">>

Cells == {"'1'", "'2'"}
Rows == {<<x, y>> : x \in Cells, y \in Cells}

JsonCol(name, id, visible, type, filter, map, rename, agg) ==
    [name |-> name, id |-> id, visible |-> visible, type |-> type, filter |-> filter,
     map |-> map, rename |-> rename, agg |-> agg, order |-> NONE]

JsonNewCol(id, visible, filter, formula, rename, agg) ==
    [id |-> id, visible |-> visible, filter |-> filter, formula |-> formula,
     rename |-> rename, agg |-> agg, order |-> NONE]

Json(entity_filter, agg_filter_, visible, normalize_, cols, new_cols) ==
    [entity_filter |-> entity_filter, agg_filter |-> agg_filter_,
     default_col |-> [visible |-> visible, normalize |-> normalize_],
     cols |-> cols, new_cols |-> new_cols]

\* "it == '1'", "<id> == '1'", "it + 'x'", "<id>"
ItIsOne == Tokenized(<<NAME("it"), OP("=="), STR("'1'")>>)
IdIsOne(id) == Tokenized(<<NAME(id), OP("=="), STR("'1'")>>)
ItPlusX == Tokenized(<<NAME("it"), OP("+"), STR("'x'")>>)
ValueOfId(id) == Tokenized(<<NAME(id)>>)

Visibles == {NONE, "True", "False"}

\* configurations that vary how the identifier of column A is declared, which
\* name the entity filter and the formula read, and where the filters are
IdConfigs ==
    { Json(ef, Absent, TRUE, nz,
           <<JsonCol("A", id, NONE, NONE, fa, tm[1], rn, NONE),
             JsonCol("b", NONE, NONE, tm[2], Absent, Absent, NONE, NONE)>>,
           nc) :
        ef \in {Absent, IdIsOne("Y"), IdIsOne("a"), IdIsOne("b")},
        nz \in BOOLEAN,
        id \in {NONE, "Y"},
        rn \in {NONE, "R"},
        fa \in {Absent, ItIsOne},
        tm \in {<<Absent, NONE>>, <<ItPlusX, "int">>},
        nc \in {<<>>} \cup
              { <<JsonNewCol("n", NONE, ItIsOne, ValueOfId(x), NONE, NONE)>> :
                    x \in {"b", "Y"} } }

\* configurations that vary which columns are visible and which aggregate
AggConfigs ==
    { Json(ef, Absent, dv, TRUE,
           <<JsonCol("A", NONE, va, NONE, Absent, Absent, NONE, aa)>>
           \o (IF ab = NONE THEN <<>>
               ELSE <<JsonCol("b", NONE, NONE, NONE, Absent, Absent, NONE, ab)>>),
           nc) :
        ef \in {Absent, IdIsOne("b")},
        dv \in BOOLEAN,
        va \in Visibles,
        aa \in {NONE, "count", "nope"},
        ab \in {NONE, "string_agg"},
        nc \in {<<>>} \cup
              { <<JsonNewCol("n", vn, Absent, ValueOfId("b"), NONE, an)>> :
                    vn \in Visibles, an \in {NONE, "count"} } }

Configs == IdConfigs \cup AggConfigs

\* "<id> == 2"
IdIsTwo(id) == Tokenized(<<NAME(id), OP("=="), NUM("2")>>)

\* configurations that vary what the header row shows: the default rule, the
\* id, the rename and the visibility of column A, and a new column
HeaderConfigs ==
    { Json(Absent, Absent, dv, nz,
           <<JsonCol("A", id, va, NONE, Absent, Absent, rn, NONE)>>,
           nc) :
        dv \in BOOLEAN,
        nz \in BOOLEAN,
        id \in {NONE, "Y"},
        va \in Visibles,
        rn \in {NONE, "R"},
        nc \in {<<>>} \cup
              { <<JsonNewCol("n", vn, Absent, ValueOfId("b"), rnn, NONE)>> :
                    vn \in {NONE, "False"}, rnn \in {NONE, "N"} } }

\* configurations that count column A by group of b and vary the aggregate
\* filter: on the count, on a raw cell, on the key, on an unbound name
AggFilterConfigs ==
    { Json(ef, af, TRUE, TRUE,
           <<JsonCol("A", NONE, NONE, NONE, Absent, Absent, NONE, "count")>>,
           <<>>) :
        ef \in {Absent, IdIsOne("a")},
        af \in {Absent, IdIsTwo("a"), IdIsOne("a"), IdIsOne("b"), IdIsOne("z")} }

OutConfigs == HeaderConfigs \cup AggFilterConfigs

\* configurations whose column b declares a type, known or not, on a file
\* whose column b holds a cell that is not the text of an int
TypeConfigs ==
    { Json(Absent, Absent, TRUE, TRUE,
           <<JsonCol("A", NONE, NONE, NONE, Absent, Absent, NONE, aa),
             JsonCol("b", NONE, NONE, ty, Absent, Absent, NONE, NONE)>>,
           <<>>) :
        aa \in {NONE, "count"},
        ty \in {"int", "nope"} }

\* an expression that reads the name z, bound nowhere: "z == '1'" and "z"
\* configurations with one such expression, in each place an expression goes
UnboundConfigs ==
    { Json(x.ef, x.af, TRUE, TRUE,
           <<JsonCol("A", NONE, NONE, NONE, Absent, Absent, NONE, aa),
             JsonCol("b", NONE, NONE, x.ty, x.fi, x.ma, NONE, NONE)>>,
           x.nc) :
        aa \in {NONE, "count"},
        x \in { [ef |-> IdIsOne("z"), af |-> Absent, ty |-> NONE, fi |-> Absent,
                 ma |-> Absent, nc |-> <<>>],
                [ef |-> Absent, af |-> IdIsOne("z"), ty |-> NONE, fi |-> Absent,
                 ma |-> Absent, nc |-> <<>>],
                [ef |-> Absent, af |-> Absent, ty |-> "z", fi |-> Absent,
                 ma |-> Absent, nc |-> <<>>],
                [ef |-> Absent, af |-> Absent, ty |-> NONE, fi |-> IdIsOne("z"),
                 ma |-> Absent, nc |-> <<>>],
                [ef |-> Absent, af |-> Absent, ty |-> NONE, fi |-> Absent,
                 ma |-> ValueOfId("z"), nc |-> <<>>],
                [ef |-> Absent, af |-> Absent, ty |-> NONE, fi |-> Absent,
                 ma |-> Absent,
                 nc |-> <<JsonNewCol("n", NONE, Absent, ValueOfId("z"), NONE, NONE)>>] } }

FailConfigs == TypeConfigs \cup UnboundConfigs

\* the rows of the file the configurations of FailConfigs are run on
FailCells == {"'1'", "'x'"}
FailRows == {<<x, y>> : x \in Cells, y \in FailCells}

\* the calls of Executor.execute on one Executor
MaxRuns == 2

\* configurations of an Executor that is used more than once: row mode, a
\* count and a string_agg of column A by group of b
RunConfigs ==
    { Json(ef, Absent, TRUE, TRUE,
           <<JsonCol("A", NONE, NONE, NONE, Absent, Absent, NONE, aa)>>,
           <<>>) :
        ef \in {Absent, IdIsOne("b")},
        aa \in {NONE, "count", "string_agg"} }

\* "it == '1' + 'x'"
ItIsOnePlusX == Tokenized(<<NAME("it"), OP("=="), STR("'1'"), OP("+"), STR("'x'")>>)

\* configurations whose columns are typed, mapped and filtered and whose
\* two new columns read an input column, each other, or the later one
StepConfigs ==
    { Json(Absent, Absent, TRUE, TRUE,
           <<JsonCol("A", NONE, NONE, NONE, fa, ItPlusX, NONE, NONE),
             JsonCol("b", NONE, NONE, "int", Absent, mb, NONE, ab)>>,
           <<JsonNewCol("n", NONE, fn, ValueOfId(x), NONE, NONE),
             JsonNewCol("m", NONE, Absent, ValueOfId(y), NONE, NONE)>>) :
        fa \in {Absent, ItIsOne, ItIsOnePlusX},
        mb \in {Absent, ItPlusX},
        ab \in {NONE, "count"},
        fn \in {Absent, ItIsOne},
        x \in {"a", "b", "m"},
        y \in {"n", "b"} }

\* "<id> == 1"
IdIsIntOne(id) == Tokenized(<<NAME(id), OP("=="), NUM("1")>>)

\* configurations that vary the id and the rename of column A, the default
\* rule, which of A and b is aggregated, and an aggregate filter reading Y
ShapeConfigs ==
    { Json(Absent, af, TRUE, nz,
           <<JsonCol("A", id, NONE, NONE, Absent, Absent, rn, aa),
             JsonCol("b", NONE, NONE, NONE, Absent, Absent, NONE, ab)>>,
           <<>>) :
        af \in {Absent, IdIsOne("Y"), IdIsIntOne("Y")},
        nz \in BOOLEAN,
        id \in {NONE, "Y"},
        rn \in {NONE, "R"},
        aa \in {NONE, "count"},
        ab \in {NONE, "count"} }

\* the rows of the files they are run on: some are shorter than the header
ShortRows == Rows \cup {<<x>> : x \in Cells}

\* a column of the document with its sort rank
Ranked(json_col, rank) == [json_col EXCEPT !.order = rank]

\* configurations that vary the sort ranks of the columns A and b and of a
\* new column, in row mode and with a count of A by group
SortConfigs ==
    { Json(Absent, Absent, TRUE, TRUE,
           <<Ranked(JsonCol("A", NONE, NONE, NONE, Absent, Absent, NONE, aa), oa),
             Ranked(JsonCol("b", NONE, NONE, tb, Absent, Absent, NONE, NONE), ob)>>,
           nc) :
        aa \in {NONE, "count"},
        oa \in {NONE, "1", "-1", "3"},
        ob \in {NONE, "2", "-2"},
        tb \in {NONE, "int"},
        nc \in {<<>>,
                <<Ranked(JsonNewCol("n", NONE, Absent, ValueOfId("b"), NONE, NONE), "-4")>>} }

\* configurations run with a row limit: column b is an int, column A is
\* counted or not
LimitConfigs ==
    { Json(Absent, Absent, TRUE, TRUE,
           <<JsonCol("A", NONE, NONE, NONE, Absent, Absent, NONE, aa),
             JsonCol("b", NONE, NONE, "int", fb, Absent, NONE, NONE)>>,
           <<>>) :
        aa \in {NONE, "count"},
        fb \in {Absent, ItIsOne} }

\* the files of up to MaxRows data rows, some with a cell that is no int
LimitFiles == {KnownFile(f) : f \in UNION {[1..n -> FailRows] : n \in 0..MaxRows}}

\* no limit, and the limits up to the length of the longest file
Limits == {NoLimit} \cup 0..MaxRows

ExprIdle ==
    /\ tokens = <<>>
    /\ value_by_name = <<>>
    /\ pos = 0
    /\ sy = NewShuntingYard
    /\ epc = "idle"
    /\ result = NoResult

\* TransformationJsonParser(...).parse(transformation_dict), then the
\* Executor is given the reader and the writer
StartOn(configs, files, limits) ==
    /\ ExprIdle
    /\ HeaderIdle
    /\ cfg \in configs
    /\ \E p \in {Parse(cfg)} :
          /\ tr = p.t
          /\ ppc = IF p.err = "" THEN "start" ELSE "raised"
    /\ reader = <<>>
    /\ d = <<>>
    /\ pending = <<>>
    /\ written_header = <<>>
    /\ sink = <<>>
    /\ trace = <<>>
    /\ runs = <<>>
    /\ csv_in \in files
    /\ limit \in limits
    /\ produced = <<>>

Start(configs) == StartOn(configs, {Lazy}, {NoLimit})

Init == Start(Configs)


-----------------------------------------------------------------------------
(* __init__.py: Executor.execute_rw *)

\* what trace records of one input row
Traced(p, key) ==
    [typed |-> p.typed, row |-> p.row, log |-> p.log, ok |-> p.ok, err |-> p.err,
     key |-> key]

\* the rows the reader can give next: any row on the first call, the rows of
\* the same file again on a later call
NextRows ==
    IF runs # <<>>
    THEN (IF Len(reader) < Len(runs[1].input) THEN {runs[1].input[Len(reader) + 1]} ELSE {})
    ELSE IF csv_in.known
    THEN (IF Len(reader) < Len(csv_in.rows) THEN {csv_in.rows[Len(reader) + 1]} ELSE {})
    ELSE IF csv_in.among # {} THEN csv_in.among
    ELSE IF cfg \in FailConfigs THEN FailRows
    ELSE Rows

\* the reader is exhausted
InputEnded ==
    IF islice_ended(Len(reader), limit) THEN TRUE
    ELSE IF runs # <<>> THEN Len(reader) = Len(runs[1].input)
    ELSE IF csv_in.known THEN Len(reader) = Len(csv_in.rows)
    ELSE TRUE

\* the header is read and written; has_agg chooses the generator
ExecuteRw ==
    /\ ppc = "start"
    /\ written_header' = file_header(tr, Header)
    /\ ppc' = IF has_agg(tr) THEN "take" ELSE "transform"
    /\ UNCHANGED <<cfg, tr, reader, d, pending, sink, trace, produced>>
    /\ UNCHANGED <<runs, csv_in, limit>>
    /\ UNCHANGED exprVars
    /\ UNCHANGED headVars

\* one iteration of the loop of _agg_generator and of the writer loop on it
TransformRow ==
    /\ ppc = "transform"
    /\ Len(reader) < MaxRows
    /\ ~islice_ended(Len(reader), limit)
    /\ \E row \in NextRows :
        \E p \in {transform(tr, DictOfZip(col_ids(tr, Header), row, <<>>))} :
        \E w \in {[fields |-> WrittenRow(p.row, visible_col_ids(tr, Header)),
                   row |-> p.row,
                   src |-> Len(reader) + 1]} :
            /\ reader' = Append(reader, row)
            /\ trace' = Append(trace, Traced(p, <<>>))
            /\ ppc' = IF p.err # "" THEN "raised" ELSE "transform"
            /\ sink' = IF p.ok /\ ~has_order(tr) THEN Append(sink, w) ELSE sink
            /\ produced' = IF p.ok /\ has_order(tr) THEN Append(produced, w) ELSE produced
    /\ UNCHANGED <<cfg, tr, d, pending, written_header>>
    /\ UNCHANGED <<runs, csv_in, limit>>
    /\ UNCHANGED exprVars
    /\ UNCHANGED headVars

\* the reader is exhausted in row mode
EndOfRows ==
    /\ ppc = "transform"
    /\ InputEnded
    /\ sink' = IF has_order(tr)
               THEN sorted(tr, produced, create_key(tr, col_ids(tr, Header)))
               ELSE sink
    /\ ppc' = "done"
    /\ UNCHANGED <<cfg, tr, reader, d, pending, written_header, trace, produced>>
    /\ UNCHANGED <<runs, csv_in, limit>>
    /\ UNCHANGED exprVars
    /\ UNCHANGED headVars

\* one iteration of the first loop of _row_generator
TakeOrIgnoreRow ==
    /\ ppc = "take"
    /\ Len(reader) < MaxRows
    /\ ~islice_ended(Len(reader), limit)
    /\ \E row \in NextRows :
        \E r \in {take_or_ignore(tr, d, DictOfZip(col_ids(tr, Header), row, <<>>))} :
            /\ reader' = Append(reader, row)
            /\ trace' = Append(trace, [Traced(r.p, r.key) EXCEPT !.err = r.err])
            /\ d' = r.d
            /\ ppc' = IF r.err # "" THEN "raised" ELSE "take"
    /\ UNCHANGED <<cfg, tr, pending, written_header, sink, produced>>
    /\ UNCHANGED <<runs, csv_in, limit>>
    /\ UNCHANGED exprVars
    /\ UNCHANGED headVars

\* the reader is exhausted in aggregate mode: agg_rows starts on the items of _d
EndOfTake ==
    /\ ppc = "take"
    /\ InputEnded
    /\ pending' = d
    /\ ppc' = "agg"
    /\ UNCHANGED <<cfg, tr, reader, d, written_header, sink, trace, produced>>
    /\ UNCHANGED <<runs, csv_in, limit>>
    /\ UNCHANGED exprVars
    /\ UNCHANGED headVars

\* one iteration of the second loop of _row_generator and of the writer loop on it
AggRow ==
    /\ ppc = "agg"
    /\ pending # <<>>
    /\ \E value_by_id \in {agg_row(tr, Head(pending))} :
       \E f \in {agg_filter(tr, value_by_id)} :
       \E w \in {[fields |-> WrittenRow(value_by_id, visible_col_ids(tr, Header)),
                  row |-> value_by_id,
                  src |-> Len(d) - Len(pending) + 1]} :
           /\ ppc' = IF f.err # "" THEN "raised" ELSE "agg"
           /\ sink' = IF f.err = "" /\ Truthy(f.val) /\ ~has_order(tr)
                      THEN Append(sink, w) ELSE sink
           /\ produced' = IF f.err = "" /\ Truthy(f.val) /\ has_order(tr)
                          THEN Append(produced, w) ELSE produced
    /\ pending' = Tail(pending)
    /\ UNCHANGED <<cfg, tr, reader, d, written_header, trace>>
    /\ UNCHANGED <<runs, csv_in, limit>>
    /\ UNCHANGED exprVars
    /\ UNCHANGED headVars

\* agg_rows is exhausted
EndOfAgg ==
    /\ ppc = "agg"
    /\ pending = <<>>
    /\ sink' = IF has_order(tr)
               THEN sorted(tr, produced, create_key(tr, col_ids(tr, Header)))
               ELSE sink
    /\ ppc' = "done"
    /\ UNCHANGED <<cfg, tr, reader, d, pending, written_header, trace, produced>>
    /\ UNCHANGED <<runs, csv_in, limit>>
    /\ UNCHANGED exprVars
    /\ UNCHANGED headVars

Next ==
    \/ ExecuteRw
    \/ TransformRow
    \/ EndOfRows
    \/ TakeOrIgnoreRow
    \/ EndOfTake
    \/ AggRow
    \/ EndOfAgg

Spec == Init /\ [][Next]_vars

\* Executor.execute is called again, on the same file, once the previous
\* call has returned: the Executor keeps its Transformation
ExecuteAgain ==
    /\ ppc = "done"
    /\ Len(runs) + 1 < MaxRuns
    /\ runs' = Append(runs, [input |-> reader, header |-> written_header,
                             rows |-> [k \in 1..Len(sink) |-> sink[k].fields]])
    /\ reader' = <<>>
    /\ written_header' = <<>>
    /\ sink' = <<>>
    /\ trace' = <<>>
    /\ pending' = <<>>
    /\ produced' = <<>>
    /\ ppc' = "start"
    /\ UNCHANGED <<cfg, tr, d, csv_in, limit>>
    /\ UNCHANGED exprVars
    /\ UNCHANGED headVars

NextRuns ==
    \/ Next
    \/ ExecuteAgain

InitRuns == Start(RunConfigs)
SpecRuns == InitRuns /\ [][NextRuns]_vars

\* the same pipeline on the configurations and the rows that raise
InitFail == Start(FailConfigs)
SpecFail == InitFail /\ [][Next]_vars

\* the same pipeline on the configurations that declare sort ranks
InitSort == Start(SortConfigs)
SpecSort == InitSort /\ [][Next]_vars

\* the same pipeline on files known before the run, with a row limit
InitLimit == StartOn(LimitConfigs, LimitFiles, Limits)
SpecLimit == InitLimit /\ [][Next]_vars

\* the same pipeline on the configurations that use every step
InitSteps == Start(StepConfigs)
SpecSteps == InitSteps /\ [][Next]_vars

\* the same pipeline on the configurations that give identifiers, on files
\* with short rows
InitShape == StartOn(ShapeConfigs, {LazyAmong(ShortRows)}, {NoLimit})
SpecShape == InitShape /\ [][Next]_vars

\* the same pipeline on the configurations that shape the output
InitOut == Start(OutConfigs)
SpecOut == InitOut /\ [][Next]_vars


-----------------------------------------------------------------------------
(* Claims about the pipeline (checked under Spec) *)

\* the configuration declares, on an existing or a new column, an aggregate
\* that is a known aggregate function
DeclaresAgg(json) ==
    \/ \E i \in 1..Len(json.cols) : json.cols[i].agg \in FUNC_BY_AGG
    \/ \E i \in 1..Len(json.new_cols) : json.new_cols[i].agg \in FUNC_BY_AGG

\* the value of a compiled expression text in an environment: [err, val]
Valued(expr, env) ==
    LET r == evaluate(process(expr).operand_stack, env)
    IN  IF r.err = "" THEN Ok(r.stack[1]) ELSE Err(r.err)

\* the entity filter of the configuration on the row that reached _filter
EntityDefined(row) ==
    cfg.entity_filter = Absent \/ Valued(cfg.entity_filter, EnvOf(row)).err = ""

EntityHolds(row) ==
    cfg.entity_filter = Absent \/ Truthy(Valued(cfg.entity_filter, EnvOf(row)).val)

\* a filter text of the configuration holds of a value
FilterHolds(expr, v) ==
    expr = Absent
    \/ (Valued(expr, [n \in {"it"} |-> v]).err = ""
        /\ Truthy(Valued(expr, [n \in {"it"} |-> v]).val))

\* every column filter of the configuration holds of the column's value
ColFiltersHold(row) ==
    /\ \A i \in 1..Len(cfg.cols) :
          HasKey(row, _col_id(tr, cfg.cols[i].name))
              => FilterHolds(cfg.cols[i].filter, Get(row, _col_id(tr, cfg.cols[i].name)))
    /\ \A i \in 1..Len(cfg.new_cols) :
          FilterHolds(cfg.new_cols[i].filter, Get(row, cfg.new_cols[i].id))

\* the input rows that reached the filters without an error
Filtered == {i \in 1..Len(trace) : trace[i].row # <<>>}

Accepted(i) ==
    /\ i \in Filtered
    /\ EntityDefined(trace[i].row)
    /\ EntityHolds(trace[i].row)
    /\ ColFiltersHold(trace[i].row)

\* the increasing sequence of the elements of a set of row numbers
RECURSIVE Ascending(_)
Ascending(S) ==
    IF S = {} THEN <<>>
    ELSE LET m == CHOOSE x \in S : \A y \in S : x <= y
         IN  <<m>> \o Ascending(S \ {m})

\* C1: in row mode the data rows written are exactly the input rows the
\* entity filter and every column filter hold of, each once, in input order;
\* a rejected row gives no output and no error.
C1_RowModeOutput ==
    (ppc \in {"transform", "done", "raised"} /\ ~DeclaresAgg(cfg))
    => /\ [k \in 1..Len(sink) |-> sink[k].src] = Ascending({i \in 1..Len(reader) : Accepted(i)})
       /\ \A k \in 1..Len(sink) :
             sink[k].fields = WrittenRow(trace[sink[k].src].row, visible_col_ids(tr, Header))
       /\ \A i \in Filtered :
             (EntityDefined(trace[i].row) /\ ~Accepted(i)) => trace[i].err = ""

\* two rows were read, the first was rejected without an error and the
\* second was written
C1_Witness ==
    /\ ppc = "done"
    /\ ~DeclaresAgg(cfg)
    /\ Len(reader) = 2
    /\ cfg.entity_filter # Absent
    /\ ~Accepted(1) /\ trace[1].err = ""
    /\ Accepted(2)
    /\ Len(sink) = 1 /\ sink[1].src = 2

\* C5: when the entity filter rejects a row, no column filter is evaluated
\* for that row.
C5_EntityFilterFirst ==
    \A i \in 1..Len(trace) :
        trace[i].log # <<>>
        => /\ trace[i].log[1] = EntityFilterMark
           /\ (EntityDefined(trace[i].row) /\ ~EntityHolds(trace[i].row))
                 => trace[i].log = <<EntityFilterMark>>

\* a row whose column A has a filter was rejected by the entity filter
C5_Witness ==
    /\ Len(trace) >= 1
    /\ cfg.entity_filter # Absent
    /\ cfg.cols[1].filter # Absent
    /\ trace[1].row # <<>>
    /\ EntityDefined(trace[1].row)
    /\ ~EntityHolds(trace[1].row)
    /\ trace[1].log = <<EntityFilterMark>>
    /\ ~trace[1].ok


\* the identifier the configuration gives the input column of a declared
\* name: the explicit id, else the rename, else the default rule on the name
DeclaredId(name) ==
    LET decl == {i \in 1..Len(cfg.cols) : cfg.cols[i].name = name}
        byDefault == IF cfg.default_col.normalize THEN normalize(name) ELSE name
    IN  IF decl = {} THEN byDefault
        ELSE LET c == cfg.cols[CHOOSE i \in decl : TRUE]
             IN  IF c.id # NONE THEN c.id
                 ELSE IF c.rename # NONE THEN c.rename
                 ELSE byDefault

DeclaredIds == {DeclaredId(Header[j]) : j \in 1..Len(Header)}
NewIds == {cfg.new_cols[i].id : i \in 1..Len(cfg.new_cols)}

\* the names an expression text reads
NamesRead(expr) == {expr[i].string : i \in {j \in 1..Len(expr) : expr[j].type = "NAME"}}

\* the typed value of the cell of column j
TypedCell(row, j) ==
    LET decl == {i \in 1..Len(cfg.cols) : cfg.cols[i].name = Header[j]}
    IN  IF decl # {} /\ cfg.cols[CHOOSE i \in decl : TRUE].type = "int"
        THEN IntOfText[row[j]] ELSE row[j]

\* C10: the identifier of an input column is its explicit id, else its
\* rename, else the default rule applied to its declared name; the formula
\* and the entity filter read each column's value under that identifier and
\* under no other name.
C10_Identifier ==
    /\ col_ids(tr, Header) =
           [j \in 1..Len(Header) |-> DeclaredId(Header[j])]
           \o [i \in 1..Len(cfg.new_cols) |-> cfg.new_cols[i].id]
    /\ \A i \in 1..Len(trace) :
          /\ trace[i].typed # <<>>
             => /\ KeySet(trace[i].typed) = DeclaredIds
                /\ \A j \in 1..Len(Header) :
                      Get(trace[i].typed, DeclaredId(Header[j])) = TypedCell(reader[i], j)
          \* a formula that reads a name evaluates exactly when that name is
          \* the identifier of a column
          /\ (cfg.new_cols # <<>> /\ trace[i].typed # <<>>)
             => (trace[i].row # <<>>
                 <=> NamesRead(cfg.new_cols[1].formula) \subseteq DeclaredIds)
          /\ trace[i].row # <<>>
             => /\ KeySet(trace[i].row) = DeclaredIds \cup NewIds
                /\ (trace[i].err = ""
                    <=> (cfg.entity_filter = Absent
                         \/ NamesRead(cfg.entity_filter) \subseteq DeclaredIds \cup NewIds))

\* column A has the explicit id Y and a rename R, and a row was accepted by
\* an entity filter reading Y while the formula read Y too
C10_Witness ==
    /\ cfg.cols[1].id = "Y" /\ cfg.cols[1].rename = "R"
    /\ cfg.entity_filter = IdIsOne("Y")
    /\ cfg.new_cols # <<>> /\ cfg.new_cols[1].formula = ValueOfId("Y")
    /\ Len(trace) >= 1
    /\ trace[1].ok
    /\ Get(trace[1].row, "Y") = "'1'"
    /\ Get(trace[1].row, "n") = "'1'"
    /\ Len(sink) >= 1

\* C4: a run is in aggregate mode exactly when some column, existing or
\* new, declares an aggregate that is a known aggregate function.
C4_AggregateModeIffDeclared ==
    /\ ppc \in {"take", "agg"} => DeclaresAgg(cfg)
    /\ ppc = "transform" => ~DeclaresAgg(cfg)

\* the mode chosen by execute_rw never changes during the run
C4_ModeNeverChanges ==
    [][/\ ppc \in {"take", "agg"} => ppc' \in {"take", "agg", "done", "raised"}
       /\ ppc = "transform" => ppc' \in {"transform", "done", "raised"}]_vars

\* the same for the aggregates declared on existing columns
C4_AggregateModeIffExistingDeclares ==
    LET existing == \E i \in 1..Len(cfg.cols) : cfg.cols[i].agg \in FUNC_BY_AGG
    IN  /\ ppc \in {"take", "agg"} => existing
        /\ ppc = "transform" => ~existing


\* the visibility a column's own setting gives it
VisibleSetting(visible) == IF visible = NONE THEN cfg.default_col.visible ELSE visible = "True"

\* the declaration of the input column of a declared name, if any
Declared(name) == {i \in 1..Len(cfg.cols) : cfg.cols[i].name = name}

\* the identifiers of the visible, non-aggregated columns: an input column by
\* its declaration or the default, a new column by its own setting
GroupingIds ==
    {DeclaredId(Header[j]) : j \in {h \in 1..Len(Header) :
        IF Declared(Header[h]) = {} THEN cfg.default_col.visible
        ELSE LET c == cfg.cols[CHOOSE i \in Declared(Header[h]) : TRUE]
             IN  VisibleSetting(c.visible) /\ c.agg \notin FUNC_BY_AGG}}
    \cup {cfg.new_cols[i].id : i \in {n \in 1..Len(cfg.new_cols) :
             VisibleSetting(cfg.new_cols[n].visible) /\ cfg.new_cols[n].agg \notin FUNC_BY_AGG}}

\* the same with a new column judged by the default visibility
GroupingIdsByDefault ==
    {DeclaredId(Header[j]) : j \in {h \in 1..Len(Header) :
        IF Declared(Header[h]) = {} THEN cfg.default_col.visible
        ELSE LET c == cfg.cols[CHOOSE i \in Declared(Header[h]) : TRUE]
             IN  VisibleSetting(c.visible) /\ c.agg \notin FUNC_BY_AGG}}
    \cup {cfg.new_cols[i].id : i \in {n \in 1..Len(cfg.new_cols) :
             cfg.default_col.visible /\ cfg.new_cols[n].agg \notin FUNC_BY_AGG}}

\* the accepted rows of an aggregate run
Taken == {i \in 1..Len(trace) : has_agg(tr) /\ trace[i].err = "" /\ Accepted(i)}

AgreeOn(ids, i, j) == \A c \in ids : Get(trace[i].row, c) = Get(trace[j].row, c)

\* C3: two accepted rows fall in the same group exactly when they agree on
\* every visible non-aggregated column, a new column being judged by its own
\* visibility setting.
C3_SameGroup ==
    \A i, j \in Taken : (trace[i].key = trace[j].key) <=> AgreeOn(GroupingIds, i, j)

\* what the code does: a new column is judged by the default visibility
C3_SameGroupByDefault ==
    \A i, j \in Taken : (trace[i].key = trace[j].key) <=> AgreeOn(GroupingIdsByDefault, i, j)

\* the aggregated columns with the name of their aggregate: [id, agg]
AggregatedExisting ==
    {[id |-> DeclaredId(cfg.cols[i].name), agg |-> cfg.cols[i].agg] :
        i \in {c \in 1..Len(cfg.cols) : cfg.cols[c].agg \in FUNC_BY_AGG}}

AggregatedNew ==
    {[id |-> cfg.new_cols[i].id, agg |-> cfg.new_cols[i].agg] :
        i \in {c \in 1..Len(cfg.new_cols) : cfg.new_cols[c].agg \in FUNC_BY_AGG}}

\* the accepted rows of the group of a key, in input order
Members(key) == Ascending({i \in Taken : trace[i].key = key})

\* the row written for a group carries the key's values and, for the
\* columns of aggs, the aggregate of the group's values in input order
GroupRowCarries(k, aggs) ==
    LET key == d[sink[k].src].k
        members == Members(key)
    IN  /\ \A e \in 1..Len(key) :
              HasKey(sink[k].row, key[e].k) /\ Get(sink[k].row, key[e].k) = key[e].v
        /\ \A a \in aggs :
              /\ HasKey(sink[k].row, a.id)
              /\ Get(sink[k].row, a.id) =
                     AggFunc(a.agg, [m \in 1..Len(members) |-> Get(trace[members[m]].row, a.id)])

OneRowPerGroup ==
    /\ Len(sink) = Cardinality({trace[i].key : i \in Taken})
    /\ \A k \in 1..Len(sink) : \E i \in Taken : trace[i].key = d[sink[k].src].k
    /\ \A k, l \in 1..Len(sink) : k # l => sink[k].src # sink[l].src

\* C2: in aggregate mode, after the input is consumed, one row is produced
\* per distinct group key of the accepted rows; it carries the key's value
\* for every non-aggregated column and, for every aggregated column, the
\* aggregate of the group's accepted values in input order.
C2_AggregateRows ==
    (has_agg(tr) /\ ppc = "done")
    => /\ OneRowPerGroup
       /\ \A k \in 1..Len(sink) : GroupRowCarries(k, AggregatedExisting \cup AggregatedNew)

\* the same for the aggregates of the existing columns
C2_AggregateRowsOfExisting ==
    (has_agg(tr) /\ ppc = "done")
    => /\ OneRowPerGroup
       /\ \A k \in 1..Len(sink) : GroupRowCarries(k, AggregatedExisting)

-----------------------------------------------------------------------------
(* The header row and the aggregate filter *)

\* the header row was written
HeaderWritten == ppc # "start" /\ (ppc = "raised" => reader # <<>>)

\* the label the configuration gives an input column: its rename, else its
\* declared name through the default rule
DisplayName(name) ==
    LET byDefault == IF cfg.default_col.normalize THEN normalize(name) ELSE name
    IN  IF Declared(name) = {} THEN byDefault
        ELSE LET c == cfg.cols[CHOOSE i \in Declared(name) : TRUE]
             IN  IF c.rename # NONE THEN c.rename ELSE byDefault

\* the positions of the visible input columns and of the visible new columns
ShownCols ==
    {h \in 1..Len(Header) :
        IF Declared(Header[h]) = {} THEN cfg.default_col.visible
        ELSE VisibleSetting(cfg.cols[CHOOSE i \in Declared(Header[h]) : TRUE].visible)}

ShownNewCols == {n \in 1..Len(cfg.new_cols) : VisibleSetting(cfg.new_cols[n].visible)}

NewDisplayName(n) ==
    IF cfg.new_cols[n].rename # NONE THEN cfg.new_cols[n].rename ELSE cfg.new_cols[n].id

ShownHeader ==
    [k \in 1..Cardinality(ShownCols) |-> DisplayName(Header[Ascending(ShownCols)[k]])]
    \o [k \in 1..Cardinality(ShownNewCols) |-> NewDisplayName(Ascending(ShownNewCols)[k])]

\* C11: the header row written is the display names of the visible input
\* columns in input order, then those of the visible new columns in
\* declaration order; the display name is the rename, else the declared name
\* through the default rule, whatever the explicit id.
C11_HeaderRow == HeaderWritten => written_header = ShownHeader

\* column A has the explicit id Y and no rename, and is shown under its
\* normalized name before b and the renamed new column
C11_Witness ==
    /\ HeaderWritten
    /\ Len(cfg.cols) = 1 /\ cfg.cols[1].id = "Y" /\ cfg.cols[1].rename = NONE
    /\ cfg.default_col.normalize
    /\ written_header = <<"a", "b", "N">>

\* a renamed column A is hidden and the header shows b alone
C11_WitnessHidden ==
    /\ HeaderWritten
    /\ Len(cfg.cols) = 1 /\ cfg.cols[1].rename = "R" /\ cfg.cols[1].visible = "False"
    /\ written_header = <<"b">>

\* the aggregate filter of the configuration holds of an aggregated row
AggFilterHolds(row) ==
    \/ cfg.agg_filter = Absent
    \/ /\ Valued(cfg.agg_filter, EnvOf(row)).err = ""
       /\ Truthy(Valued(cfg.agg_filter, EnvOf(row)).val)

\* the groups agg_rows has yielded so far, by their position in _d
Yielded == 1..(Len(d) - Len(pending))

\* C12: in aggregate mode nothing is written before the input is grouped;
\* then each aggregated row, holding the aggregates of its group, is put to
\* the aggregate filter once and is written exactly when the filter holds.
C12_AggregateFilter ==
    /\ ppc = "take" => sink = <<>>
    /\ (has_agg(tr) /\ ppc \in {"agg", "done"})
       => /\ [k \in 1..Len(sink) |-> sink[k].src] =
                 Ascending({i \in Yielded : AggFilterHolds(agg_row(tr, d[i]))})
          /\ \A k \in 1..Len(sink) :
                /\ sink[k].row = agg_row(tr, d[sink[k].src])
                /\ GroupRowCarries(k, AggregatedExisting)

\* under the filter "a == 2" the single group of two rows was written with
\* its count
C12_Witness ==
    /\ ppc = "done"
    /\ cfg.agg_filter = IdIsTwo("a")
    /\ Len(reader) = 2 /\ Len(d) = 1
    /\ Len(sink) = 1 /\ Get(sink[1].row, "a") = "2"

\* under the same filter two groups of one row each were dropped
C12_WitnessDropped ==
    /\ ppc = "done"
    /\ cfg.agg_filter = IdIsTwo("a")
    /\ Len(d) = 2
    /\ sink = <<>>

-----------------------------------------------------------------------------
(* Several calls on one Executor *)

\* what the current call has written
WrittenRows == [k \in 1..Len(sink) |-> sink[k].fields]

\* the calls that returned, the current one included when it is done
SameOutputAsBefore ==
    \A k \in 1..Len(runs) :
        (ppc = "done" /\ runs[k].input = reader)
        => (runs[k].header = written_header /\ runs[k].rows = WrittenRows)

\* C13: a call of the pipeline on the same input with the same
\* configuration gives the same output as the call before; what an earlier
\* input stream accumulated never reaches the aggregates of a later one.
C13_SameOutputTwice ==
    /\ SameOutputAsBefore
    /\ (ppc = "start" => d = <<>>)

\* the same in row mode
C13_SameOutputTwiceInRowMode == ~has_agg(tr) => SameOutputAsBefore

\* a second call in row mode returned after it wrote a row
C13_Witness ==
    /\ ~has_agg(tr)
    /\ ppc = "done"
    /\ Len(runs) = 1
    /\ runs[1].input = reader
    /\ sink # <<>>

\* a second call in aggregate mode returned after it wrote a row
C13_WitnessAgg ==
    /\ has_agg(tr)
    /\ ppc = "done"
    /\ Len(runs) = 1
    /\ runs[1].input = reader
    /\ sink # <<>>

-----------------------------------------------------------------------------
(* Errors raised by a row *)

\* the declared type of some column rejects its cell of input row i
CoercionRejects(i) ==
    \E j \in 1..Len(Header) :
        /\ Declared(Header[j]) # {}
        /\ cfg.cols[CHOOSE c \in Declared(Header[j]) : TRUE].type \in FUNC_BY_TYPE
        /\ reader[i][j] \notin DOMAIN IntOfText

\* the error of row i ended the run: the row is the last one read
HaltedAt(i) == trace[i].err # "" /\ ppc = "raised" /\ i = Len(reader)

\* C14: when a declared type rejects the raw value of a row, the error
\* leaves the run: the row is not skipped, no later row is processed and no
\* data row of the run has been written.
C14_TypeErrorHalts ==
    \A i \in 1..Len(trace) :
        CoercionRejects(i) => (trace[i].err = "ValueError" /\ HaltedAt(i) /\ sink = <<>>)

\* the same without the absence of output
C14_TypeErrorHaltsRun ==
    \A i \in 1..Len(trace) :
        CoercionRejects(i) => (trace[i].err = "ValueError" /\ HaltedAt(i))

\* the same in aggregate mode
C14_TypeErrorHaltsAggregateRun ==
    has_agg(tr) => C14_TypeErrorHalts

\* the second row of a row-mode run was rejected by int
C14_Witness ==
    /\ ~has_agg(tr)
    /\ Len(trace) = 2
    /\ CoercionRejects(2)

\* the declared input columns of the header, by their position in cols
DeclaredCols == {c \in 1..Len(cfg.cols) : \E j \in 1..Len(Header) : cfg.cols[c].name = Header[j]}

\* an expression text of a column reads a name other than "it"
ReadsBeyondIt(expr) == expr # Absent /\ ~(NamesRead(expr) \subseteq {"it"})

\* the places where row i has an expression evaluated that reads a name its
\* environment does not bind: the type expression of a column (a type that
\* is not in the table is compiled as an expression), a formula, a map, the
\* entity filter, and a column filter once every other filter has held
UnboundInType == \E c \in DeclaredCols : cfg.cols[c].type \notin FUNC_BY_TYPE \cup {NONE, "it"}

UnboundInFormula ==
    \E n \in 1..Len(cfg.new_cols) :
        ~(NamesRead(cfg.new_cols[n].formula)
              \subseteq DeclaredIds \cup {cfg.new_cols[m].id : m \in 1..(n - 1)})

UnboundInMap == \E c \in DeclaredCols : ReadsBeyondIt(cfg.cols[c].map)

UnboundInEntityFilter ==
    cfg.entity_filter # Absent /\ ~(NamesRead(cfg.entity_filter) \subseteq DeclaredIds \cup NewIds)

UnboundInColFilter ==
    /\ \/ \E c \in DeclaredCols : ReadsBeyondIt(cfg.cols[c].filter)
       \/ \E n \in 1..Len(cfg.new_cols) : ReadsBeyondIt(cfg.new_cols[n].filter)
    /\ cfg.entity_filter = Absent
    /\ \A c \in DeclaredCols : cfg.cols[c].filter # Absent => ReadsBeyondIt(cfg.cols[c].filter)
    /\ \A n \in 1..Len(cfg.new_cols) :
          cfg.new_cols[n].filter # Absent => ReadsBeyondIt(cfg.new_cols[n].filter)

UnboundInRow ==
    \/ UnboundInType \/ UnboundInFormula \/ UnboundInMap
    \/ UnboundInEntityFilter \/ UnboundInColFilter

\* agg_rows has started
AggPhase ==
    /\ has_agg(tr)
    /\ \/ ppc \in {"agg", "done"}
       \/ ppc = "raised" /\ (trace = <<>> \/ trace[Len(trace)].err = "")

UnboundInAggFilter(i) ==
    cfg.agg_filter # Absent /\ ~(NamesRead(cfg.agg_filter) \subseteq KeySet(agg_row(tr, d[i])))

\* the row expressions but the type expression and the map
UnboundInRowButTypeAndMap ==
    \/ UnboundInFormula \/ UnboundInEntityFilter \/ UnboundInColFilter

\* an unbound name ends the run for the rows and the groups of a set of places
UnboundHalts(rowPlaces) ==
    /\ \A i \in 1..Len(trace) :
          (rowPlaces /\ ~CoercionRejects(i)) => (trace[i].err = "KeyError" /\ HaltedAt(i))
    /\ AggPhase
       => \A i \in Yielded :
             UnboundInAggFilter(i) => (ppc = "raised" /\ i = 1 /\ Yielded = {1} /\ sink = <<>>)

\* C16: an expression that reads an identifier its environment does not
\* bind raises, wherever the expression stands (entity filter, aggregate
\* filter, column filter, column map, type expression, formula): the run
\* ends on that row, which is neither written nor dropped in silence.
C16_UnboundIsHardError == UnboundHalts(UnboundInRow)

\* the same but for the type expression and the map of a column
C16_UnboundIsHardErrorButTypeAndMap == UnboundHalts(UnboundInRowButTypeAndMap)

\* a row whose map reads the unbound name z was written
C16_WitnessMap ==
    /\ UnboundInMap
    /\ sink # <<>>

\* the aggregate filter read the unbound name z and the run ended
C16_WitnessAggFilter ==
    /\ AggPhase
    /\ ppc = "raised"
    /\ UnboundInAggFilter(1)

\* the declared input columns that name an aggregate absent from the table
UnknownAggCols ==
    {c \in DeclaredCols : cfg.cols[c].agg \notin FUNC_BY_AGG \cup {NONE}}

\* C17: a configuration whose column names an aggregate absent from the
\* aggregate table is built without an error; the column is not aggregated:
\* has_agg() is false when no other column declares an aggregate, and the
\* column, when visible, is part of the group key with its value.
C17_UnknownAggTolerated ==
    UnknownAggCols # {}
    => /\ Parse(cfg).err = ""
       /\ \A c \in UnknownAggCols : ~_col_is_agg(tr, DeclaredId(cfg.cols[c].name))
       /\ ~DeclaresAgg(cfg) => (~has_agg(tr) /\ ppc \notin {"take", "agg"})
       /\ \A i \in Taken : \A c \in UnknownAggCols :
             VisibleSetting(cfg.cols[c].visible)
             => /\ HasKey(trace[i].key, DeclaredId(cfg.cols[c].name))
                /\ Get(trace[i].key, DeclaredId(cfg.cols[c].name))
                      = Get(trace[i].row, DeclaredId(cfg.cols[c].name))

\* column A names the unknown aggregate nope, alone: a row was written in
\* row mode
C17_Witness ==
    /\ UnknownAggCols # {}
    /\ ~DeclaresAgg(cfg)
    /\ ppc = "done"
    /\ sink # <<>>

\* column A names nope beside the string_agg of b: a row was taken under a
\* key that holds the value of a
C17_WitnessKey ==
    /\ UnknownAggCols # {}
    /\ \E i \in Taken : HasKey(trace[i].key, "a")

\* the declared input columns that name a type absent from the table
UnknownTypeCols ==
    {c \in DeclaredCols : cfg.cols[c].type \notin FUNC_BY_TYPE \cup {NONE}}

\* the raw values of a cell
RawValues == Cells \cup FailCells

C18_UnknownTypeToleratedByRow ==
    UnknownTypeCols # {}
    => /\ Parse(cfg).err = ""
       /\ \A c \in UnknownTypeCols : \A v \in RawValues :
             /\ type_value(Get(_col_transformation_by_name(tr), cfg.cols[c].name), v)
                    = Err("KeyError")
             /\ _type_value(tr, DeclaredId(cfg.cols[c].name), v) = Ok(v)
       /\ \A i \in 1..Len(trace) : \A c \in UnknownTypeCols : \A j \in 1..Len(Header) :
             (trace[i].typed # <<>> /\ Header[j] = cfg.cols[c].name)
             => Get(trace[i].typed, DeclaredId(Header[j])) = reader[i][j]

\* a row of a column of the unknown type nope was written with its raw cell
C18_Witness ==
    /\ UnknownTypeCols # {}
    /\ ppc = "done"
    /\ \E k \in 1..Len(sink) : Get(sink[k].row, "b") = "'x'"

-----------------------------------------------------------------------------
(* Malformed expressions *)

\* the opening minus the closing parentheses of the first n tokens
RECURSIVE Depth(_, _)
Depth(body, n) ==
    IF n = 0 THEN 0
    ELSE Depth(body, n - 1)
         + (IF body[n] = OP("(") THEN 1 ELSE IF body[n] = OP(")") THEN -1 ELSE 0)

\* a closing parenthesis that closes nothing, or an opening one never closed
UnbalancedClose(body) == \E n \in 1..Len(body) : Depth(body, n) < 0
UnbalancedOpen(body) == ~UnbalancedClose(body) /\ Depth(body, Len(body)) > 0

\* a comma outside every parenthesis
DanglingComma(body) ==
    \E n \in 1..Len(body) : body[n] = OP(",") /\ Depth(body, n) = 0

\* an operator token right after an operand that is no binary operator
UnknownOpAfterOperand(body) ==
    \E n \in 2..Len(body) :
        /\ body[n].type \in {"OP", "ERRORTOKEN"}
        /\ body[n].string \notin DOMAIN binop_by_name
        /\ IsOperand(body[n - 1])

\* process has returned an instruction sequence
Compiled == epc \in {"evaluate", "done"} \/ (epc = "raised" /\ result # NoResult)

\* C15: an expression with an unbalanced parenthesis, a dangling comma or
\* an unknown operator after an operand is rejected by process; it never
\* yields an instruction sequence.
C15_MalformedRejected ==
    (\/ UnbalancedClose(Body(tokens)) \/ UnbalancedOpen(Body(tokens))
     \/ DanglingComma(Body(tokens)) \/ UnknownOpAfterOperand(Body(tokens)))
    => ~Compiled

\* what the code does: a malformed expression raises in process or, on
\* every environment, in evaluate; it never has a value
C15_MalformedNeverValued ==
    (\/ UnbalancedClose(Body(tokens)) \/ UnbalancedOpen(Body(tokens))
     \/ DanglingComma(Body(tokens)) \/ UnknownOpAfterOperand(Body(tokens)))
    => epc # "done"

\* a malformed expression was rejected by process
C15_WitnessRejected ==
    /\ UnknownOpAfterOperand(Body(tokens))
    /\ epc = "raised"
    /\ ~Compiled

-----------------------------------------------------------------------------
(* transformation.py: improve_header, add_fields.  A name of a header is   *)
(* the sequence of its characters.                                         *)

Digits == <<"0", "1", "2", "3", "4", "5", "6", "7", "8", "9">>
IsDigit(c) == \E n \in 1..Len(Digits) : Digits[n] = c
IsSpace(c) == c \in {" ", "\t"}

\* int(m.group(2))
RECURSIVE IntOfDigits(_)
IntOfDigits(ds) ==
    IF ds = <<>> THEN 0
    ELSE 10 * IntOfDigits(Front(ds)) + ((CHOOSE n \in 1..Len(Digits) : Digits[n] = Last(ds)) - 1)

\* the text of a natural number, as "{}".format writes it
RECURSIVE DigitsOfInt(_)
DigitsOfInt(n) ==
    IF n < 10 THEN <<Digits[n + 1]>>
    ELSE Append(DigitsOfInt(n \div 10), Digits[(n % 10) + 1])

\* "{}_{}".format(base, v)
FormatSuffix(base, v) == base \o <<"_">> \o DigitsOfInt(v)

\* f.strip()
RECURSIVE strip(_)
strip(f) ==
    IF f = <<>> THEN f
    ELSE IF IsSpace(Head(f)) THEN strip(Tail(f))
    ELSE IF IsSpace(Last(f)) THEN strip(Front(f))
    ELSE f

\* the length of the digits that end f
RECURSIVE TrailingDigits(_)
TrailingDigits(f) ==
    IF f # <<>> /\ IsDigit(Last(f)) THEN 1 + TrailingDigits(Front(f)) ELSE 0

\* the match of "^(.*)_(\d+)$" when f ends with k digits: the base and the
\* number, or f itself and 0
SuffixOfLength(f, k) ==
    IF k >= 1 /\ Len(f) > k /\ f[Len(f) - k] = "_"
    THEN [base |-> SubSeq(f, 1, Len(f) - k - 1),
          v |-> IntOfDigits(SubSeq(f, Len(f) - k + 1, Len(f)))]
    ELSE [base |-> f, v |-> 0]

SUFFIX_REGEX(f) == SuffixOfLength(f, TrailingDigits(f))

\* one iteration of the while loop of improve_header
NextCandidate(f) == Bind(SUFFIX_REGEX(f), LAMBDA m : FormatSuffix(m.base, m.v + 1))

\* while f in seen
RECURSIVE WhileSeen(_, _)
WhileSeen(f, seen) == IF f \notin seen THEN f ELSE WhileSeen(NextCandidate(f), seen)

\* the for loop of improve_header
RECURSIVE ImproveFrom(_, _, _, _, _)
ImproveFrom(hdr, i, duplicates, seen, new_header) ==
    IF i > Len(hdr) THEN new_header
    ELSE Bind(IF strip(hdr[i]) \in duplicates THEN WhileSeen(strip(hdr[i]), seen)
              ELSE strip(hdr[i]),
              LAMBDA f : ImproveFrom(hdr, i + 1, duplicates, seen \cup {f},
                                     Append(new_header, f)))

improve_header(hdr) ==
    ImproveFrom(hdr, 1,
                {hdr[i] : i \in {j \in 1..Len(hdr) :
                                   Cardinality({k \in 1..Len(hdr) : hdr[k] = hdr[j]}) > 1}},
                {hdr[i] : i \in 1..Len(hdr)},
                <<>>)

\* a variant that numbers the added fields from 0
add_fields_from_zero(fields, prefix, total) ==
    IF Len(fields) >= total THEN fields
    ELSE fields \o [i \in 1..(total - Len(fields)) |-> FormatSuffix(prefix, i - 1)]

\* add_fields(fields, prefix, total)
add_fields(fields, prefix, total) ==
    IF Len(fields) >= total THEN fields
    ELSE fields \o [i \in 1..(total - Len(fields)) |-> FormatSuffix(prefix, i)]

\* Transformation.add_fields
Transformation_add_fields(x, hdr) ==
    IF x.count > 0 THEN add_fields(hdr, x.prefix, x.count) ELSE hdr

\* the longest header read
MaxWidth == 3

\* the names of the headers: a, a_1, "a " with a trailing blank, the empty
\* name, b
HeaderNames == {<<"a">>, <<"a", "_", "1">>, <<"a", " ">>, <<>>, <<"b">>}

Headers == UNION {[1..n -> HeaderNames] : n \in 0..MaxWidth}

\* "extra" of the configuration: absent (count -1), and prefixes a and ex
\* with counts below and above the widths of the headers
Extras ==
    {[prefix |-> <<"e", "x", "t", "r", "a">>, count |-> -1]}
    \cup {[prefix |-> <<"a">>, count |-> c] : c \in {2, MaxWidth + 1}}
    \cup {[prefix |-> <<"e", "x">>, count |-> c] : c \in {1, 11}}

\* header = next(reader)
InitHeader ==
    /\ ExprIdle
    /\ PipeIdle
    /\ header_row \in Headers
    /\ extra \in Extras
    /\ clean_header = <<>>
    /\ hpc = "read"

\* clean_header = transformation.add_fields(header)
AddFields ==
    /\ hpc = "read"
    /\ clean_header' = Transformation_add_fields(extra, header_row)
    /\ hpc' = "padded"
    /\ UNCHANGED <<header_row, extra>>
    /\ UNCHANGED exprVars
    /\ UNCHANGED pipeVars

\* clean_header = improve_header(clean_header)
ImproveHeader ==
    /\ hpc = "padded"
    /\ clean_header' = improve_header(clean_header)
    /\ hpc' = "improved"
    /\ UNCHANGED <<header_row, extra>>
    /\ UNCHANGED exprVars
    /\ UNCHANGED pipeVars

NextHeader ==
    \/ AddFields
    \/ ImproveHeader

SpecHeader == InitHeader /\ [][NextHeader]_vars

-----------------------------------------------------------------------------
(* The cleaned header *)

\* the header improve_header is given
Padded == Transformation_add_fields(extra, header_row)

Occurrences(hdr, f) == Cardinality({i \in 1..Len(hdr) : hdr[i] = f})

\* the names seen when position i is reached: those of the input and the
\* results of the positions before i
SeenAt(hdr, res, i) == {hdr[j] : j \in 1..Len(hdr)} \cup {res[j] : j \in 1..(i - 1)}

\* the k-th candidate of a name: its base with the number of its suffix, or
\* 0, plus k
Candidate(f, k) == FormatSuffix(SUFFIX_REGEX(f).base, SUFFIX_REGEX(f).v + k)

FirstUnseen(f, seen) ==
    Candidate(f, CHOOSE k \in 1..(Cardinality(seen) + 1) :
                    /\ Candidate(f, k) \notin seen
                    /\ \A j \in 1..(k - 1) : Candidate(f, j) \in seen)

Improved(hdr, res) ==
    /\ Len(res) = Len(hdr)
    /\ \A i \in 1..Len(hdr) :
          IF Occurrences(hdr, hdr[i]) = 1 THEN res[i] = hdr[i]
          ELSE res[i] = FirstUnseen(hdr[i], SeenAt(hdr, res, i))

\* C19: improve_header returns a list of the same length; a name that
\* occurs once keeps its place and text; each occurrence of a name that
\* occurs more than once becomes, from left to right, the first candidate
\* with an appended or incremented _N suffix that has not been seen.
C19_ImproveHeader == hpc = "improved" => Improved(Padded, clean_header)

\* the same for the headers whose names have no blank around them
C19_ImproveHeaderOfStrippedNames ==
    (hpc = "improved" /\ \A i \in 1..Len(Padded) : strip(Padded[i]) = Padded[i])
    => Improved(Padded, clean_header)

\* the header a, a_1, a was improved to a_2, a_1, a_3
C19_Witness ==
    /\ hpc = "improved"
    /\ Padded = <<<<"a">>, <<"a", "_", "1">>, <<"a">>>>
    /\ clean_header = <<<<"a", "_", "2">>, <<"a", "_", "1">>, <<"a", "_", "3">>>>

\* the names p_1 .. p_n of a prefix, written digit by digit
PadNames(prefix, n) ==
    [i \in 1..n |-> prefix \o <<"_">>
                     \o (IF i < 10 THEN <<Digits[i + 1]>>
                         ELSE <<Digits[(i \div 10) + 1], Digits[(i % 10) + 1]>>)]

\* C20: padding with prefix p to the width W returns the header unchanged
\* when it is at least W long or when padding is not configured, and else
\* the header followed by p_1 .. p_(W-len); padding comes before the
\* deduplication.
C20_AddFields ==
    /\ hpc = "padded"
       => /\ clean_header =
                 IF extra.count <= 0 \/ Len(header_row) >= extra.count THEN header_row
                 ELSE header_row \o PadNames(extra.prefix, extra.count - Len(header_row))
          /\ Len(clean_header) =
                 IF extra.count > Len(header_row) THEN extra.count ELSE Len(header_row)
    /\ hpc = "improved"
       => /\ Len(clean_header) =
                 IF extra.count > Len(header_row) THEN extra.count ELSE Len(header_row)
          /\ \A i, j \in 1..Len(clean_header) :
                (i # j /\ i > Len(header_row)) => clean_header[i] # clean_header[j]

\* the header a_1 was padded to the width 2 with a_1, which the
\* deduplication then renamed
C20_Witness ==
    /\ hpc = "improved"
    /\ header_row = <<<<"a", "_", "1">>>>
    /\ extra = [prefix |-> <<"a">>, count |-> 2]
    /\ clean_header = <<<<"a", "_", "2">>, <<"a", "_", "3">>>>

-----------------------------------------------------------------------------
(* The run stack, the keywords and the power operator (SpecExpr) *)

\* C23: when evaluate returns the value of an instruction sequence that
\* process produced, exactly one value is on its run stack.
C23_OneValueLeft == epc = "done" => Len(result.stack) = 1

\* the same for the expressions x o y o z, with or without parentheses and
\* prefix operators
C23_OneValueLeftOfOperators ==
    (epc = "done" /\ Body(tokens) \in ChainExprs \cup ParenExprs \cup UnaryExprs)
        => Len(result.stack) = 1

\* a b is accepted by process and evaluate returns with two values
C23_WitnessTwoValues ==
    /\ Body(tokens) = <<NAME("a"), NAME("b")>>
    /\ epc = "done"
    /\ Len(result.stack) = 2

\* C26: and, or are binary operators that bind looser than the
\* comparisons: a < b and c < d is (a<b) and (c<d), x or y and z is
\* x or (y and z).
C26_KeywordOperators ==
    LET b == Body(tokens)
        env == value_by_name
    IN  /\ (b = <<NAME("a"), OP("<"), NAME("b"), NAME("and"), NAME("c"), OP("<"), NAME("d")>>
            /\ Evaluated)
           => Returned(BinFunc("and", BinFunc("<", env["a"], env["b"]),
                                      BinFunc("<", env["c"], env["d"])))
        /\ (b = <<NAME("a"), NAME("or"), NAME("b"), NAME("and"), NAME("c")>> /\ Evaluated)
           => Returned(BinFunc("or", env["a"], BinFunc("and", env["b"], env["c"])))

\* what process does with them: and, or become identifiers, which evaluate
\* looks up in the environment
C26_KeywordsReadAsIdentifiers ==
    (Body(tokens) \in KeywordExprs /\ epc \in {"evaluate", "done", "raised"})
        => /\ \E i \in 1..Len(sy.operand_stack) :
                 sy.operand_stack[i] \in {Identifier("and"), Identifier("or")}
           /\ \A i \in 1..Len(sy.operand_stack) : sy.operand_stack[i].kind # "BinOp"
                 \/ sy.operand_stack[i].name \notin {"and", "or"}
           /\ epc = "raised" => result.err = "KeyError"
           /\ epc # "done"

C26_WitnessRaised ==
    /\ Body(tokens) = <<NAME("a"), NAME("or"), NAME("b"), NAME("and"), NAME("c")>>
    /\ epc = "raised"
    /\ result.err = "KeyError"

\* C27: the power operator is right associative and binds tighter than a
\* prefix minus on its left: a^b^c is a^(b^c), -a^b is -(a^b), a^-b is
\* a^(-b).
C27_PowerRightAssociative ==
    LET b == Body(tokens)
        env == value_by_name
    IN  /\ (Shape(b, <<"x", "^", "x", "^", "x">>) /\ Evaluated)
           => Returned(GroupRight("^", "^", ValueOf(b[1], env), ValueOf(b[3], env),
                                  ValueOf(b[5], env)))
        /\ (Shape(b, <<"-", "x", "^", "x">>) /\ Evaluated)
           => Returned(UnFunc("-", BinFunc("^", ValueOf(b[2], env), ValueOf(b[4], env))))
        /\ (Shape(b, <<"x", "^", "-", "x">>) /\ Evaluated)
           => Returned(BinFunc("^", ValueOf(b[1], env), UnFunc("-", ValueOf(b[4], env))))

\* 2^3^2 has been evaluated to 2^(3^2)
C27_Witness ==
    /\ Body(tokens) = <<NUM("2"), OP("^"), NUM("3"), OP("^"), NUM("2")>>
    /\ Returned("(2^(3^2))")

\* -a^b has been evaluated to -(a^b)
C27_WitnessMinus ==
    /\ Body(tokens) = <<OP("-"), NAME("a"), OP("^"), NAME("b")>>
    /\ value_by_name = [n \in IdentNames |-> "1"]
    /\ Returned("(-(1^1))")

\* C28: an argument whose value is the str 'STOP', from a string literal or
\* from a bound name, is passed to the function like any other value and
\* does not end the argument list.
C28_StopIsAnArgument ==
    LET b == Body(tokens)
    IN  (IsCall(b) /\ Evaluated)
        => LET args == WrittenArgs(b)
               vals == [i \in 1..Len(args) |-> ValueAlone(args[i], value_by_name)]
           IN  (\E i \in 1..Len(args) : vals[i] = StopValue)
                   => Returned(CallFunc(b[1].string, vals))

\* min('STOP') returned the marker's value: min was called with no argument
\* and its result is not the bottom of the stack
C28_WitnessCollision ==
    /\ Body(tokens) = <<NAME("min"), OP("("), STR("'STOP'"), OP(")")>>
    /\ epc = "done"
    /\ result.stack = <<StopValue, "min()">>

-----------------------------------------------------------------------------
(* The names of the cleaned header (SpecHeader) *)

NoTwoEqual(hdr) == \A i, j \in 1..Len(hdr) : i # j => hdr[i] # hdr[j]

\* C30: for every header, also one whose names differ only by blanks
\* around them or carry a numeric suffix, the list improve_header returns
\* has no two equal names.
C30_NoTwoEqualNames == hpc = "improved" => NoTwoEqual(clean_header)

\* the same for the headers whose names have no blank around them
C30_NoTwoEqualStrippedNames ==
    (hpc = "improved" /\ \A i \in 1..Len(Padded) : strip(Padded[i]) = Padded[i])
        => NoTwoEqual(clean_header)

\* the names a and "a " came out equal
C30_WitnessEqual ==
    /\ hpc = "improved"
    /\ Padded = <<<<"a">>, <<"a", " ">>>>
    /\ clean_header = <<<<"a">>, <<"a">>>>

-----------------------------------------------------------------------------
(* The order of the written rows (SpecSort) *)

\* the columns of the configuration that declare a sort rank: [id, rank]
DeclaredRanks ==
    {[id |-> _col_id(tr, cfg.cols[i].name), rank |-> int_of_rank[cfg.cols[i].order]] :
        i \in {j \in 1..Len(cfg.cols) : cfg.cols[j].order # NONE}}
    \cup {[id |-> cfg.new_cols[i].id, rank |-> int_of_rank[cfg.new_cols[i].order]] :
            i \in {j \in 1..Len(cfg.new_cols) : cfg.new_cols[j].order # NONE}}

\* the ranked columns that decide between two rows: the rows differ on it
\* and agree on every column of a smaller absolute rank
Deciding(row1, row2) ==
    {c \in DeclaredRanks :
        /\ Get(row1, c.id) # Get(row2, c.id)
        /\ \A c2 \in DeclaredRanks :
              Abs(c2.rank) < Abs(c.rank) => Get(row1, c2.id) = Get(row2, c2.id)}

\* w1 may be written right before w2: the deciding column orders them, by
\* its natural order or the reverse; rows that agree on every ranked column
\* stay in the order they were produced in
MayPrecede(w1, w2) ==
    IF Deciding(w1.row, w2.row) = {} THEN w1.src < w2.src
    ELSE \A c \in Deciding(w1.row, w2.row) :
            IF c.rank > 0 THEN NaturalLess(Get(w1.row, c.id), Get(w2.row, c.id))
            ELSE NaturalLess(Get(w2.row, c.id), Get(w1.row, c.id))

\* C21: when a column declares a sort rank, the rows produced, in either
\* mode, are written sorted by the ranked columns only, compared by
\* ascending absolute rank, a negative rank reversing the column's natural
\* order; the columns without a rank do not influence the order.
C21_SortedByRank ==
    (ppc = "done" /\ DeclaredRanks # {})
        => /\ Len(sink) = Len(produced)
           /\ \A k \in 1..Len(produced) : \E j \in 1..Len(sink) : sink[j] = produced[k]
           /\ \A k \in 1..(Len(sink) - 1) : MayPrecede(sink[k], sink[k + 1])

\* no row is written before every row has been produced
C21_WrittenAfterTheLast ==
    (ppc \in {"transform", "take", "agg"} /\ DeclaredRanks # {}) => sink = <<>>

\* in row mode two rows were written in the reverse of the input order
C21_Witness ==
    /\ ppc = "done"
    /\ ~has_agg(tr)
    /\ DeclaredRanks # {}
    /\ Len(sink) = 2
    /\ sink[1].src = 2
    /\ sink[2].src = 1

\* in aggregate mode two groups were written in the reverse of the order
\* their keys were first met in
C21_WitnessAgg ==
    /\ ppc = "done"
    /\ has_agg(tr)
    /\ DeclaredRanks # {}
    /\ Len(sink) = 2
    /\ sink[1].src = 2
    /\ sink[2].src = 1

\* two rows that differ on an unranked column only were written in the
\* order produced, below a negative rank
C21_WitnessTie ==
    /\ ppc = "done"
    /\ Len(sink) = 2
    /\ sink[1].src = 1
    /\ sink[1].row # sink[2].row
    /\ Deciding(sink[1].row, sink[2].row) = {}
    /\ \E c \in DeclaredRanks : c.rank < 0

-----------------------------------------------------------------------------
(* The row limit (SpecLimit) *)

\* min(L, n) for a file of n data rows, n when there is no limit
Ingestible ==
    IF limit = NoLimit \/ limit > Len(csv_in.rows) THEN Len(csv_in.rows) ELSE limit

\* the number of values the groups of the accumulator hold for a column
RECURSIVE AccumulatedFrom(_, _, _)
AccumulatedFrom(dd, col_id, i) ==
    IF i > Len(dd) THEN 0
    ELSE (IF HasKey(dd[i].v, col_id) THEN Len(Get(dd[i].v, col_id)) ELSE 0)
         + AccumulatedFrom(dd, col_id, i + 1)

\* C22: with a row limit L exactly the first min(L, n) data rows are
\* ingested, in either mode, each once; the rows beyond the limit are
\* never typed, filtered, accumulated or written, and raise nothing.
C22_RowLimit ==
    /\ Len(reader) <= Ingestible
    /\ reader = SubSeq(csv_in.rows, 1, Len(reader))
    /\ Len(trace) = Len(reader)
    /\ ppc \in {"agg", "done"} => Len(reader) = Ingestible
    /\ ppc = "raised" => (trace # <<>> /\ Last(trace).err # "")
    /\ \A k \in 1..Len(sink) :
          ~has_agg(tr) => (sink[k].src <= Ingestible /\ trace[sink[k].src].ok)
    /\ (ppc = "done" /\ ~has_agg(tr))
          => Len(sink) = Cardinality({i \in 1..Ingestible : trace[i].ok})
    /\ has_agg(tr)
          => AccumulatedFrom(d, "a", 1) = Cardinality({i \in 1..Len(trace) : trace[i].ok})

\* a run with the limit 1 ended without an error on a file whose second row
\* holds a cell that is no int
C22_Witness ==
    /\ ppc = "done"
    /\ limit = 1
    /\ Len(csv_in.rows) = 2
    /\ csv_in.rows[2][2] = "'x'"
    /\ Len(reader) = 1
    /\ Len(sink) = 1

\* the same in aggregate mode
C22_WitnessAgg ==
    /\ ppc = "done"
    /\ has_agg(tr)
    /\ limit = 1
    /\ Len(csv_in.rows) = 2
    /\ csv_in.rows[2][2] = "'x'"
    /\ AccumulatedFrom(d, "a", 1) = 1

\* without a limit the cell of the second row raised
C22_WitnessNoLimit ==
    /\ ppc = "raised"
    /\ limit = NoLimit
    /\ Len(reader) = 2

-----------------------------------------------------------------------------
(* The order of the steps on a row (SpecSteps) *)

\* the map text of the input column of an identifier, Absent when it has none
MapOfId(id) ==
    LET decl == {i \in 1..Len(cfg.cols) : DeclaredId(cfg.cols[i].name) = id}
    IN  IF decl = {} THEN Absent ELSE cfg.cols[CHOOSE i \in decl : TRUE].map

\* what the formula of the k-th new column may read in row i: the typed
\* values of the input columns and the values of the new columns before it
FormulaEnv(i, k) ==
    [n \in DeclaredIds \cup {cfg.new_cols[j].id : j \in 1..(k - 1)} |->
        IF n \in DeclaredIds THEN Get(trace[i].typed, n) ELSE Get(trace[i].row, n)]

\* every formula of the configuration reads names it may read
FormulasBound ==
    \A k \in 1..Len(cfg.new_cols) :
        NamesRead(cfg.new_cols[k].formula)
            \subseteq DeclaredIds \cup {cfg.new_cols[j].id : j \in 1..(k - 1)}

\* C24: for every row the steps are type, extend, map, filter: the formula
\* of the k-th new column is evaluated on the typed, not yet mapped values
\* of the input columns and the values of the new columns 1..k-1 only, and
\* every column filter is evaluated on the column's value after its map.
C24_StepOrder ==
    \A i \in 1..Len(trace) :
        /\ trace[i].typed # <<>> => (trace[i].row # <<>> <=> FormulasBound)
        /\ trace[i].row # <<>>
           => /\ \A k \in 1..Len(cfg.new_cols) :
                    Get(trace[i].row, cfg.new_cols[k].id)
                        = Valued(cfg.new_cols[k].formula, FormulaEnv(i, k)).val
              /\ \A id \in DeclaredIds :
                    Get(trace[i].row, id)
                        = IF MapOfId(id) = Absent THEN Get(trace[i].typed, id)
                          ELSE Valued(MapOfId(id), [n \in {"it"} |-> Get(trace[i].typed, id)]).val
              /\ trace[i].ok <=> ColFiltersHold(trace[i].row)

\* a row was accepted whose column A is mapped and filtered on the mapped
\* value, whose new column n read the typed value of A and was filtered on
\* it, and whose new column m read n
C24_Witness ==
    /\ Len(trace) >= 1
    /\ trace[1].ok
    /\ cfg.cols[1].filter = ItIsOnePlusX
    /\ cfg.new_cols[1].filter = ItIsOne
    /\ trace[1].row = <<Entry("a", "('1'+'x')"), Entry("b", "1"),
                        Entry("n", "'1'"), Entry("m", "'1'")>>

\* a row raised because the first new column reads the second
C24_WitnessLater ==
    /\ Len(trace) >= 1
    /\ ~FormulasBound
    /\ trace[1].err = "KeyError"
    /\ trace[1].row = <<>>

-----------------------------------------------------------------------------
(* The fields of the written rows (SpecShape) *)

\* the aggregate the configuration declares for the column of an identifier
AggOfId(id) ==
    cfg.cols[CHOOSE i \in 1..Len(cfg.cols) : DeclaredId(cfg.cols[i].name) = id].agg

\* the group of an item of the accumulator, addressed by column
\* identifier: the values of its key and the aggregates of its lists
GroupById(item) ==
    [id \in KeySet(item.k) \cup KeySet(item.v) |->
        IF HasKey(item.k, id) THEN Get(item.k, id)
        ELSE AggFunc(AggOfId(id), Get(item.v, id))]

\* the identifiers of the visible columns, in header order
ShownIds ==
    [k \in 1..Cardinality(ShownCols) |-> DeclaredId(Header[Ascending(ShownCols)[k]])]
    \o [k \in 1..Cardinality(ShownNewCols) |-> cfg.new_cols[Ascending(ShownNewCols)[k]].id]

\* the fields of a row that holds the values vals of some identifiers
FieldsOf(vals) ==
    [j \in 1..Len(ShownIds) |->
        IF ShownIds[j] \in DOMAIN vals THEN vals[ShownIds[j]] ELSE EmptyText]

\* the aggregate filter on a group addressed by identifier
AggFilterDefinedById(item) ==
    cfg.agg_filter = Absent \/ NamesRead(cfg.agg_filter) \subseteq DOMAIN GroupById(item)

AggFilterHoldsById(item) ==
    \/ cfg.agg_filter = Absent
    \/ /\ Valued(cfg.agg_filter, GroupById(item)).err = ""
       /\ Truthy(Valued(cfg.agg_filter, GroupById(item)).val)

\* the aggregate rows are produced for the groups Yielded
AggregateRows == has_agg(tr) /\ ppc \in {"agg", "done", "raised"} /\ Len(trace) = Len(reader)
                 /\ (trace = <<>> \/ Last(trace).err = "")

\* C25: in aggregate mode each emitted row is addressed by column
\* identifier: the field written for a visible column is its key value or
\* its aggregate, and the aggregate filter reads any column by its
\* identifier, also when the identifier is an explicit id or a rename.
C25_AggregateRowsById ==
    AggregateRows
        => /\ \A k \in 1..Len(sink) : sink[k].fields = FieldsOf(GroupById(d[sink[k].src]))
           /\ \A i \in Yielded :
                 AggFilterDefinedById(d[i])
                     => /\ (ppc = "raised" => i < Len(d) - Len(pending))
                        /\ (AggFilterHoldsById(d[i]) <=> \E k \in 1..Len(sink) : sink[k].src = i)

\* every identifier is the name _rename gives it
RenameKeepsIds == \A id \in DeclaredIds : _col_rename(tr, id) = id

\* the same for the configurations whose identifiers are their own
\* display names
C25_AggregateRowsByOwnName == RenameKeepsIds => C25_AggregateRowsById

\* column A has the explicit id Y, a group was written under the filter
\* "Y == '1'" with the value of Y
C25_WitnessOwnName ==
    /\ ppc = "done"
    /\ has_agg(tr)
    /\ RenameKeepsIds
    /\ cfg.cols[1].id = "Y"
    /\ cfg.agg_filter = IdIsOne("Y")
    /\ Len(sink) = 1
    /\ sink[1].fields = <<"'1'", "1">>

\* column A has the explicit id Y: the group's count of Y is written as an
\* empty field
C25_WitnessEmptied ==
    /\ ppc = "done"
    /\ has_agg(tr)
    /\ cfg.cols[1].id = "Y" /\ cfg.cols[1].agg = "count"
    /\ cfg.agg_filter = Absent
    /\ Len(sink) = 1
    /\ sink[1].fields[1] = EmptyText

\* the values of the row a written row comes from, by identifier
ValuesOf(w) ==
    IF has_agg(tr) THEN GroupById(d[w.src]) ELSE EnvOf(trace[w.src].row)

\* C29: in both modes every data row written has as many fields as the
\* header row, and the field at position j is the value of the column whose
\* display name is at position j of the header; a column with no value in
\* the row is written as an empty field.
C29_FieldsUnderHeader ==
    \A k \in 1..Len(sink) :
        /\ Len(sink[k].fields) = Len(written_header)
        /\ written_header = ShownHeader
        /\ sink[k].fields = FieldsOf(ValuesOf(sink[k]))

\* the same in row mode
C29_FieldsUnderHeaderInRowMode == ~has_agg(tr) => C29_FieldsUnderHeader

\* in row mode a row shorter than the header was written with an empty
\* last field
C29_WitnessShort ==
    /\ ~has_agg(tr)
    /\ Len(sink) >= 1
    /\ Len(reader[sink[1].src]) = 1
    /\ Len(written_header) = 2
    /\ sink[1].fields = <<"'1'", EmptyText>>

====
